---------------------------- MODULE Spec2Model ----------------------------
(***************************************************************************)
(* BusTub storage core: the LRU-K replacer (src/buffer/lru_k_replacer.cpp), *)
(* the buffer pool manager (src/buffer/buffer_pool_manager.cpp), the page   *)
(* guards, the persistent trie and its store, the B+ tree and its iterator. *)
(*                                                                         *)
(* The specifications share the variables; SpecGuard, SpecTrie, SpecStore, *)
(* SpecTree, SpecTreeRemove, SpecIter, SpecLatch and SpecLatchFair are     *)
(* introduced with their components below.                                 *)
(* The replacer and the pool have four:                                    *)
(*   SpecReplacer  the replacer alone, driven by arbitrary sequences of    *)
(*                 RecordAccess / SetEvictable / Evict / Remove calls;     *)
(*   Spec          the buffer pool driven by two concurrent clients,       *)
(*                 every latched section of a method being one step;       *)
(*   SpecCore      NewPage / FetchPage / UnpinPage by two concurrent       *)
(*                 clients on a pool whose frames are all in use;          *)
(*   SpecFlushAll  the same with FlushAllPages and DeletePage.             *)
(***************************************************************************)
EXTENDS Integers, Sequences, FiniteSets, TLC

VARIABLES
  replacer,      \* LRUKReplacer: node_store_, curr_size_, current_timestamp_, k_, replacer_size_
  rop,           \* the last replacer call of SpecReplacer: its name, whether it threw; for Evict the state before it and its result
  pages,         \* pages_[fid]: page_id_, pin_count_, is_dirty_, data_
  page_table,    \* page_table_: page id -> frame id (a map with a growing/shrinking key set)
  free_list,     \* free_list_: sequence of frame ids, taken and returned at the back
  next_page_id,  \* next_page_id_
  disk,          \* the disk manager's blocks: page id -> contents
  pc,            \* per thread: the place it stands at inside a pool method ("idle" between calls)
  lv,            \* per thread: the locals of the running method (page_id argument, fid)
  held,          \* per thread and page: the frame the client got from the pool while it keeps its pin, else NoFrame; in SpecLatch the pins of tree pages the thread has taken and not given back
  committed,     \* per page: the newest contents a client released with UnpinPage(p, true)
  ops,           \* how many more NewPage calls, FetchPage calls and changes of a page's bytes the clients carry out
  gd,            \* page guards: the guard objects, the pool's pin counts and latches as the guards move them, the UnpinPage calls made
  trie,          \* the persistent trie: the heap of trie nodes, the current root_, the roots of the earlier tries
  store,         \* TrieStore: root_, root_lock_, write_lock_, every thread's place in Get / Put / Remove
  tree,          \* the B+ tree: its pages, the header's root_page_id_, the keys inserted so far
  iter           \* an IndexIterator: guard_, pos_, and the leaves it walks

vars == <<replacer, rop, pages, page_table, free_list, next_page_id, disk,
          pc, lv, held, committed, ops, gd, trie, store, tree, iter>>

poolVars == <<pages, page_table, free_list, next_page_id, disk, pc, lv, held, committed, ops>>

\* The components above the buffer pool: page guards, trie, trie store, B+ tree, iterator.
extVars == <<gd, trie, store, tree, iter>>

\* A specification that does not exercise them leaves them empty.
ExtIdle ==
  /\ gd = <<>>
  /\ trie = <<>>
  /\ store = <<>>
  /\ tree = <<>>
  /\ iter = <<>>

-----------------------------------------------------------------------------
(* Bounds of the model. *)

\* The replacer's drivers stop calling RecordAccess once current_timestamp_ is MaxTs.
MaxTs == 4
\* The replacer specification tries every k in 1..MaxK.
MaxK == 3
\* num_frames of the stand-alone replacer.
RepFrames == 3

INVALID_PAGE_ID == -1
NoFrame == -1

-----------------------------------------------------------------------------
(* LRUKReplacer *)

\* LRUKNode(): a fresh node has no history and is not evictable.
LRUKNode == [history |-> <<>>, is_evictable |-> FALSE]

\* LRUKReplacer(num_frames, k)
NewReplacer(num_frames, k) ==
  [node_store |-> <<>>, curr_size |-> 0, current_timestamp |-> 0,
   k |-> k, replacer_size |-> num_frames]

Tracked(r) == DOMAIN r.node_store

\* The frame_id range test that opens RecordAccess and SetEvictable: TRUE when they throw.
InvalidFrame(r, frame_id) == frame_id < 0 \/ frame_id >= r.replacer_size

\* Remove throws on a node that is present and not evictable.
RemoveThrows(r, frame_id) ==
  frame_id \in Tracked(r) /\ ~r.node_store[frame_id].is_evictable

\* Remove as it would be with is_evictable_ left set.
Remove_KeepsFlag(r, frame_id) ==
  IF frame_id \notin Tracked(r) THEN r
  ELSE IF ~r.node_store[frame_id].is_evictable THEN r
  ELSE [r EXCEPT !.node_store[frame_id] = [history |-> <<>>, is_evictable |-> TRUE],
                 !.curr_size = r.curr_size - 1]

Remove(r, frame_id) ==
  IF frame_id \notin Tracked(r) THEN r
  ELSE IF ~r.node_store[frame_id].is_evictable THEN r   \* throw: nothing was changed
  ELSE [r EXCEPT !.node_store[frame_id] = [history |-> <<>>, is_evictable |-> FALSE],
                 !.curr_size = r.curr_size - 1]

\* PushFront as it would be with the newest of the old timestamps dropped instead of
\* the oldest.
PushFront_DropsNewest(h, ts, k) ==
  LET g == <<ts>> \o h IN IF Len(g) > k THEN <<ts>> \o SubSeq(h, 2, Len(h)) ELSE g

\* history_ is a list with the newest timestamp at the front (push_front) and the
\* oldest dropped at the back (pop_back) once it is longer than k_.
PushFront(h, ts, k) ==
  LET g == <<ts>> \o h IN IF Len(g) > k THEN SubSeq(g, 1, Len(g) - 1) ELSE g

\* RecordAccess as it would be with the timestamp taken before the range test.
RecordAccess_CountsFirst(r, frame_id) ==
  IF InvalidFrame(r, frame_id) THEN [r EXCEPT !.current_timestamp = r.current_timestamp + 1]
  ELSE LET node == IF frame_id \in Tracked(r) THEN r.node_store[frame_id] ELSE LRUKNode
           ts   == r.current_timestamp + 1
           new  == [node EXCEPT !.history = PushFront(node.history, ts, r.k)]
       IN [r EXCEPT !.node_store = [f \in Tracked(r) \cup {frame_id} |->
                                      IF f = frame_id THEN new ELSE r.node_store[f]],
                    !.current_timestamp = ts]

RecordAccess(r, frame_id) ==
  IF InvalidFrame(r, frame_id) THEN r                  \* throw: nothing was changed
  ELSE LET node == IF frame_id \in Tracked(r) THEN r.node_store[frame_id] ELSE LRUKNode
           ts   == r.current_timestamp + 1
           new  == [node EXCEPT !.history = PushFront(node.history, ts, r.k)]
       IN [r EXCEPT !.node_store = [f \in Tracked(r) \cup {frame_id} |->
                                      IF f = frame_id THEN new ELSE r.node_store[f]],
                    !.current_timestamp = ts]

\* SetEvictable as it would be without the comparison with the old flag.
SetEvictable_NoFlipTest(r, frame_id, set_evictable) ==
  IF InvalidFrame(r, frame_id) THEN r
  ELSE IF frame_id \notin Tracked(r) THEN r
  ELSE [r EXCEPT !.curr_size = IF set_evictable THEN r.curr_size + 1 ELSE r.curr_size - 1,
                 !.node_store[frame_id].is_evictable = set_evictable]

SetEvictable(r, frame_id, set_evictable) ==
  IF InvalidFrame(r, frame_id) THEN r                  \* throw: nothing was changed
  ELSE IF frame_id \notin Tracked(r) THEN r
  ELSE LET node == r.node_store[frame_id] IN
       IF ~node.is_evictable /\ set_evictable
         THEN [r EXCEPT !.curr_size = r.curr_size + 1,
                        !.node_store[frame_id].is_evictable = TRUE]
       ELSE IF node.is_evictable /\ ~set_evictable
         THEN [r EXCEPT !.curr_size = r.curr_size - 1,
                        !.node_store[frame_id].is_evictable = FALSE]
       ELSE r

Size(r) == r.curr_size

\* The frames Evict may choose from.
EvictableIn(r) == {f \in Tracked(r) : r.node_store[f].is_evictable}

\* The orders in which "for (auto it : node_store_)" may visit the nodes: node_store_
\* is a hash map, so any order of its keys.
IterationOrders(r) ==
  LET S == Tracked(r) IN
  {o \in [1..Cardinality(S) -> S] : \A i, j \in 1..Cardinality(S) : i # j => o[i] # o[j]}

\* The loop of Evict from position i of the visiting order, carrying the four locals.
RECURSIVE EvictLoop(_, _, _, _)
EvictLoop(r, order, i, st) ==
  IF i > Len(order) THEN st
  ELSE LET f == order[i]
           node == r.node_store[f]
           h == node.history
       IN IF ~node.is_evictable THEN EvictLoop(r, order, i + 1, st)
          ELSE IF Len(h) < r.k
            THEN IF h = <<>>
                   THEN [st EXCEPT !.inf_fid = f]                      \* break
                 ELSE IF h[1] < st.inf_ts
                   THEN EvictLoop(r, order, i + 1, [st EXCEPT !.inf_fid = f, !.inf_ts = h[1]])
                 ELSE EvictLoop(r, order, i + 1, st)
          ELSE IF st.inf_fid # -1 THEN EvictLoop(r, order, i + 1, st)
          ELSE IF h[1] < st.ts
            THEN EvictLoop(r, order, i + 1, [st EXCEPT !.fid = f, !.ts = h[1]])
          ELSE EvictLoop(r, order, i + 1, st)

\* Evict: [ok, frame_id, r] -- the return value, *frame_id and the replacer afterwards.
Evict(r, order) ==
  LET st == EvictLoop(r, order, 1,
                      [fid |-> -1, inf_fid |-> -1,
                       ts |-> r.current_timestamp + 1, inf_ts |-> r.current_timestamp + 1])
  IN IF st.inf_fid # -1 THEN [ok |-> TRUE, frame_id |-> st.inf_fid, r |-> Remove(r, st.inf_fid)]
     ELSE IF st.fid # -1 THEN [ok |-> TRUE, frame_id |-> st.fid, r |-> Remove(r, st.fid)]
     ELSE [ok |-> FALSE, frame_id |-> -1, r |-> r]


-----------------------------------------------------------------------------
(* Buffer pool: sizes, threads, initial state. *)

\* BufferPoolManager(pool_size, disk_manager, replacer_k)
pool_size == 2
replacer_k == 2
\* Page ids the disk holds blocks for; NewPage is not called once they are used up.
MaxPages == 4
\* The number of NewPage calls, FetchPage calls and changes of a page's bytes the
\* clients carry out in one run of Spec and of SpecCore.
MaxOps == 3
MaxCoreOps == 4

Threads == {"t1", "t2"}
Frames == 0..(pool_size - 1)
PageIds == 0..(MaxPages - 1)

\* A frame after ResetMemory with the metadata of an unbound frame.
Page0 == [page_id |-> INVALID_PAGE_ID, pin_count |-> 0, is_dirty |-> FALSE, data |-> 0]

NoCall == [op |-> "none"]
NoLocals == [page_id |-> INVALID_PAGE_ID, fid |-> -1, adopted |-> FALSE]

\* The clients before their first call.
ClientsInit(n) ==
  /\ pc = [t \in Threads |-> "idle"]
  /\ lv = [t \in Threads |-> NoLocals]
  /\ held = [t \in Threads |-> [p \in PageIds |-> NoFrame]]
  /\ committed = [p \in PageIds |-> 0]
  /\ ops = n

\* The pool as its constructor leaves it, over a disk of zeroed blocks.
PoolInit ==
  /\ pages = [f \in Frames |-> Page0]
  /\ page_table = <<>>
  /\ free_list = [i \in 1..pool_size |-> i - 1]
  /\ next_page_id = 0
  /\ disk = [p \in PageIds |-> 0]

-----------------------------------------------------------------------------
(* The replacer on its own: every call sequence, every k in 1..MaxK. *)

\* Frame ids a caller may pass: the valid ones and one beyond each end.
RepArgs == -1..RepFrames

InitReplacer ==
  /\ \E k \in 1..MaxK : replacer = NewReplacer(RepFrames, k)
  /\ rop = NoCall
  /\ PoolInit
  /\ ClientsInit(0)
  /\ ExtIdle

R_RecordAccess ==
  \E f \in RepArgs :
    /\ replacer.current_timestamp < MaxTs
    /\ replacer' = RecordAccess(replacer, f)
    /\ rop' = [op |-> "RecordAccess", threw |-> InvalidFrame(replacer, f)]
    /\ UNCHANGED <<poolVars, extVars>>

R_SetEvictable ==
  \E f \in RepArgs, b \in BOOLEAN :
    /\ replacer' = SetEvictable(replacer, f, b)
    /\ rop' = [op |-> "SetEvictable", threw |-> InvalidFrame(replacer, f)]
    /\ UNCHANGED <<poolVars, extVars>>

R_Remove ==
  \E f \in RepArgs :
    /\ replacer' = Remove(replacer, f)
    /\ rop' = [op |-> "Remove", threw |-> RemoveThrows(replacer, f)]
    /\ UNCHANGED <<poolVars, extVars>>

R_Evict ==
  \E order \in IterationOrders(replacer) :
    LET e == Evict(replacer, order) IN
    /\ replacer' = e.r
    /\ rop' = [op |-> "Evict", ok |-> e.ok, frame_id |-> e.frame_id, pre |-> replacer]
    /\ UNCHANGED <<poolVars, extVars>>

NextReplacer == R_RecordAccess \/ R_SetEvictable \/ R_Remove \/ R_Evict

SpecReplacer == InitReplacer /\ [][NextReplacer]_vars

-----------------------------------------------------------------------------
(* BufferPoolManager.  A step is one latched section (latch_.lock() ... unlock()) *)
(* or the unlatched statements between two sections.  Clients pin a page by       *)
(* NewPage/FetchPage, may change its bytes while they hold the pin, and unpin it  *)
(* once; a client also may call UnpinPage for a page that   *)
(* is not resident or that nobody has pinned.  A call that returns nullptr or     *)
(* false without changing anything leaves every variable as it was.              *)

Resident(pt, p) == p \in DOMAIN pt
MapErase(m, key) == [x \in DOMAIN m \ {key} |-> m[x]]
MapPut(m, key, v) == [x \in DOMAIN m \cup {key} |-> IF x = key THEN v ELSE m[x]]

\* disk_manager_->WritePage / ReadPage on the blocks the model keeps.
WritePage(d, page_id, data) == IF page_id \in DOMAIN d THEN [d EXCEPT ![page_id] = data] ELSE d
ReadPage(d, page_id) == IF page_id \in DOMAIN d THEN d[page_id] ELSE 0

\* An exception thrown inside a latched section leaves latch_ locked for ever.
LatchFree == \A u \in Threads : pc[u] # "dp_threw"

\* Threads inside NewPage that have not yet called AllocatePage.
AllocationsPending == Cardinality({u \in Threads : pc[u] = "np_meta"})

\* The frame-securing part as it would be if a failed Evict still handed out frame 0.
TakeFrame_Frame0(order) ==
  IF free_list # <<>>
    THEN [ok |-> TRUE, fid |-> free_list[Len(free_list)],
          free_list |-> SubSeq(free_list, 1, Len(free_list) - 1),
          page_table |-> page_table, disk |-> disk, replacer |-> replacer]
  ELSE LET e == Evict(replacer, order)
           fid == IF e.ok THEN e.frame_id ELSE 0
           old == pages[fid]
       IN [ok |-> TRUE, fid |-> fid, free_list |-> free_list,
           page_table |-> IF old.page_id # INVALID_PAGE_ID
                            THEN MapErase(page_table, old.page_id) ELSE page_table,
           disk |-> IF old.is_dirty THEN WritePage(disk, old.page_id, old.data) ELSE disk,
           replacer |-> e.r]

\* The frame-securing part as it would be with the frame left on the free list.
TakeFrame_NoPop(order) ==
  IF free_list # <<>>
    THEN [ok |-> TRUE, fid |-> free_list[Len(free_list)], free_list |-> free_list,
          page_table |-> page_table, disk |-> disk, replacer |-> replacer]
  ELSE LET e == Evict(replacer, order) IN
       IF ~e.ok
         THEN [ok |-> FALSE, fid |-> -1, free_list |-> free_list,
               page_table |-> page_table, disk |-> disk, replacer |-> e.r]
       ELSE LET old == pages[e.frame_id] IN
            [ok |-> TRUE, fid |-> e.frame_id, free_list |-> free_list,
             page_table |-> IF old.page_id # INVALID_PAGE_ID
                              THEN MapErase(page_table, old.page_id) ELSE page_table,
             disk |-> IF old.is_dirty THEN WritePage(disk, old.page_id, old.data) ELSE disk,
             replacer |-> e.r]

\* The frame-securing part shared by NewPage (lines 41-61) and FetchPage (95-116).
TakeFrame(order) ==
  IF free_list # <<>>
    THEN [ok |-> TRUE, fid |-> free_list[Len(free_list)],
          free_list |-> SubSeq(free_list, 1, Len(free_list) - 1),
          page_table |-> page_table, disk |-> disk, replacer |-> replacer]
  ELSE LET e == Evict(replacer, order) IN
       IF ~e.ok
         THEN [ok |-> FALSE, fid |-> -1, free_list |-> free_list,
               page_table |-> page_table, disk |-> disk, replacer |-> e.r]
       ELSE LET old == pages[e.frame_id] IN
            [ok |-> TRUE, fid |-> e.frame_id, free_list |-> free_list,
             page_table |-> IF old.page_id # INVALID_PAGE_ID
                              THEN MapErase(page_table, old.page_id) ELSE page_table,
             disk |-> IF old.is_dirty THEN WritePage(disk, old.page_id, old.data) ELSE disk,
             replacer |-> e.r]

(* NewPage *)

\* Lines 40-61 with node_store_ visited in the given order.
NP_AcquireWith(t, order) ==
  /\ pc[t] = "idle" /\ LatchFree
  /\ next_page_id + AllocationsPending < MaxPages
  /\ LET tf == TakeFrame(order) IN
     /\ tf.ok => ops > 0
     /\ free_list' = tf.free_list
     /\ page_table' = tf.page_table
     /\ disk' = tf.disk
     /\ replacer' = tf.replacer
     /\ pc' = [pc EXCEPT ![t] = IF tf.ok THEN "np_meta" ELSE "idle"]
     /\ lv' = [lv EXCEPT ![t] = IF tf.ok THEN [NoLocals EXCEPT !.fid = tf.fid] ELSE NoLocals]
     /\ ops' = IF tf.ok THEN ops - 1 ELSE ops
  /\ UNCHANGED <<rop, pages, next_page_id, held, committed, extVars>>

NP_Acquire(t) == \E order \in IterationOrders(replacer) : NP_AcquireWith(t, order)

\* Lines 63-66, unlatched, on the frame the thread now owns.
NP_Meta(t) ==
  /\ pc[t] = "np_meta"
  /\ pages' = [pages EXCEPT ![lv[t].fid] =
                 [page_id |-> next_page_id, pin_count |-> 1, is_dirty |-> FALSE, data |-> 0]]
  /\ next_page_id' = next_page_id + 1
  /\ pc' = [pc EXCEPT ![t] = "np_register"]
  /\ UNCHANGED <<replacer, rop, page_table, free_list, disk, lv, held, committed, ops, extVars>>

\* Lines 67-75.
NP_Register(t) ==
  /\ pc[t] = "np_register" /\ LatchFree
  /\ LET fid == lv[t].fid
         pid == pages[fid].page_id
     IN /\ page_table' = MapPut(page_table, pid, fid)
        /\ replacer' = RecordAccess(SetEvictable(replacer, fid, FALSE), fid)
        /\ held' = [held EXCEPT ![t][pid] = fid]
  /\ pc' = [pc EXCEPT ![t] = "idle"]
  /\ lv' = [lv EXCEPT ![t] = NoLocals]
  /\ UNCHANGED <<rop, pages, free_list, next_page_id, disk, committed, ops, extVars>>

(* FetchPage *)

\* ++pin_count_ as it would be without the 0 -> 1 case.
PinExisting_KeepsEvictable(pg, r, fid) ==
  [pages |-> [pg EXCEPT ![fid].pin_count = @ + 1], replacer |-> r]

\* ++pin_count_ on the frame found in page_table_, with the 0 -> 1 case.
PinExisting(pg, r, fid) ==
  [pages |-> [pg EXCEPT ![fid].pin_count = @ + 1],
   replacer |-> IF pg[fid].pin_count + 1 = 1 THEN SetEvictable(r, fid, FALSE) ELSE r]

\* The page ids clients pass to UnpinPage, FlushPage and DeletePage: those NewPage has
\* allocated and one it has not.
ArgPageIds == {p \in PageIds : p <= next_page_id}

\* The page ids NewPage has returned to a client.
HandedOut ==
  {p \in PageIds : p < next_page_id} \
    {pages[lv[u].fid].page_id : u \in {v \in Threads : pc[v] = "np_register"}}

\* Lines 81-116.  A client fetches a page NewPage has handed out, and holds at most
\* one pin of its own on a page.
FP_LookupWith(t, page_id, order) ==
  /\ pc[t] = "idle" /\ LatchFree
  /\ page_id \in HandedOut
  /\ held[t][page_id] = NoFrame
  /\ IF Resident(page_table, page_id)
       THEN LET pin == PinExisting(pages, replacer, page_table[page_id]) IN
            /\ ops > 0
            /\ pages' = pin.pages
            /\ replacer' = pin.replacer
            /\ pc' = [pc EXCEPT ![t] = "fp_record"]
            /\ lv' = [lv EXCEPT ![t] = [NoLocals EXCEPT !.page_id = page_id,
                                                        !.fid = page_table[page_id]]]
            /\ ops' = ops - 1
            /\ UNCHANGED <<free_list, page_table, disk>>
     ELSE LET tf == TakeFrame(order) IN
          /\ tf.ok => ops > 0
          /\ free_list' = tf.free_list
          /\ page_table' = tf.page_table
          /\ disk' = tf.disk
          /\ replacer' = tf.replacer
          /\ pc' = [pc EXCEPT ![t] = IF tf.ok THEN "fp_meta" ELSE "idle"]
          /\ lv' = [lv EXCEPT ![t] = IF tf.ok
                                       THEN [NoLocals EXCEPT !.page_id = page_id, !.fid = tf.fid]
                                       ELSE NoLocals]
          /\ ops' = IF tf.ok THEN ops - 1 ELSE ops
          /\ UNCHANGED pages
  /\ UNCHANGED <<rop, next_page_id, held, committed, extVars>>

FP_Lookup(t) ==
  \E page_id \in PageIds, order \in IterationOrders(replacer) : FP_LookupWith(t, page_id, order)

\* Lines 117-120, unlatched, on the frame the thread now owns.
FP_Meta(t) ==
  /\ pc[t] = "fp_meta"
  /\ pages' = [pages EXCEPT ![lv[t].fid] =
                 [page_id |-> lv[t].page_id, pin_count |-> 1, is_dirty |-> FALSE, data |-> 0]]
  /\ pc' = [pc EXCEPT ![t] = "fp_read"]
  /\ UNCHANGED <<replacer, rop, page_table, free_list, next_page_id, disk, lv, held, committed, ops, extVars>>

\* Line 122: the disk read, unlatched.
FP_Read(t) ==
  /\ pc[t] = "fp_read"
  /\ pages' = [pages EXCEPT ![lv[t].fid].data = ReadPage(disk, pages[lv[t].fid].page_id)]
  /\ pc' = [pc EXCEPT ![t] = "fp_relock"]
  /\ UNCHANGED <<replacer, rop, page_table, free_list, next_page_id, disk, lv, held, committed, ops, extVars>>

\* Lines 123-145 as they would be without the second look at page_table_.
FP_Relock_NoRecheck(t) ==
  /\ pc[t] = "fp_relock" /\ LatchFree
  /\ page_table' = MapPut(page_table, lv[t].page_id, lv[t].fid)
  /\ replacer' = SetEvictable(replacer, lv[t].fid, FALSE)
  /\ pc' = [pc EXCEPT ![t] = "fp_record"]
  /\ UNCHANGED <<rop, pages, free_list, lv, next_page_id, disk, held, committed, ops, extVars>>

\* Lines 123-145: the second look at page_table_.
FP_Relock(t) ==
  /\ pc[t] = "fp_relock" /\ LatchFree
  /\ LET fid == lv[t].fid
         page_id == lv[t].page_id
     IN IF ~Resident(page_table, page_id)
          THEN /\ page_table' = MapPut(page_table, page_id, fid)
               /\ replacer' = SetEvictable(replacer, fid, FALSE)
               /\ UNCHANGED <<pages, free_list, lv>>
        ELSE LET pin == PinExisting([pages EXCEPT ![fid] = Page0], replacer, page_table[page_id]) IN
             /\ pages' = pin.pages
             /\ replacer' = pin.replacer
             /\ free_list' = Append(free_list, fid)
             /\ lv' = [lv EXCEPT ![t].fid = page_table[page_id], ![t].adopted = TRUE]
             /\ UNCHANGED page_table
  /\ pc' = [pc EXCEPT ![t] = "fp_record"]
  /\ UNCHANGED <<rop, next_page_id, disk, held, committed, ops, extVars>>

\* Lines 148-152.
FP_Record(t) ==
  /\ pc[t] = "fp_record" /\ LatchFree
  /\ replacer' = RecordAccess(replacer, lv[t].fid)
  /\ held' = [held EXCEPT ![t][lv[t].page_id] = lv[t].fid]
  /\ pc' = [pc EXCEPT ![t] = "idle"]
  /\ lv' = [lv EXCEPT ![t] = NoLocals]
  /\ UNCHANGED <<rop, pages, page_table, free_list, next_page_id, disk, committed, ops, extVars>>

(* UnpinPage: one latched section. [ret, pages, replacer] *)

\* UnpinPage as it would be with is_dirty_ = is_dirty.
UnpinPageCode_Overwrite(pg, pt, r, page_id, is_dirty) ==
  IF ~Resident(pt, page_id) THEN [ret |-> FALSE, pages |-> pg, replacer |-> r]
  ELSE LET fid == pt[page_id] IN
       IF pg[fid].pin_count = 0 THEN [ret |-> FALSE, pages |-> pg, replacer |-> r]
       ELSE [ret |-> TRUE,
             pages |-> [pg EXCEPT ![fid].pin_count = @ - 1, ![fid].is_dirty = is_dirty],
             replacer |-> IF pg[fid].pin_count - 1 = 0 THEN SetEvictable(r, fid, TRUE) ELSE r]

UnpinPageCode(pg, pt, r, page_id, is_dirty) ==
  IF ~Resident(pt, page_id) THEN [ret |-> FALSE, pages |-> pg, replacer |-> r]
  ELSE LET fid == pt[page_id] IN
       IF pg[fid].pin_count = 0 THEN [ret |-> FALSE, pages |-> pg, replacer |-> r]
       ELSE [ret |-> TRUE,
             pages |-> [pg EXCEPT ![fid].pin_count = @ - 1,
                                  ![fid].is_dirty = (@ \/ is_dirty)],
             replacer |-> IF pg[fid].pin_count - 1 = 0 THEN SetEvictable(r, fid, TRUE) ELSE r]

Max(a, b) == IF a >= b THEN a ELSE b

\* The client gives back a pin it holds, or calls UnpinPage for a
\* page that is not resident or has no pin at all.
UnpinPageCall(t, page_id, is_dirty) ==
  /\ pc[t] = "idle" /\ LatchFree
  /\ IF held[t][page_id] # NoFrame THEN TRUE
     ELSE IF Resident(page_table, page_id)
       THEN pages[page_table[page_id]].pin_count = 0 ELSE TRUE
  /\ LET u == UnpinPageCode(pages, page_table, replacer, page_id, is_dirty) IN
     /\ pages' = u.pages
     /\ replacer' = u.replacer
  /\ committed' = IF held[t][page_id] # NoFrame /\ is_dirty
                    THEN [committed EXCEPT ![page_id] = Max(@, pages[held[t][page_id]].data)]
                  ELSE committed
  /\ held' = [held EXCEPT ![t][page_id] = NoFrame]
  /\ UNCHANGED <<rop, page_table, free_list, next_page_id, disk, pc, lv, ops, extVars>>

UnpinPage(t) == \E page_id \in ArgPageIds, is_dirty \in BOOLEAN : UnpinPageCall(t, page_id, is_dirty)

\* The client changes the bytes of a page through the pointer it got, while pinned.
WriteData(t) ==
  /\ pc[t] = "idle"
  /\ \E page_id \in PageIds :
       /\ held[t][page_id] # NoFrame
       /\ pages' = [pages EXCEPT ![held[t][page_id]].data = @ + 1]
  /\ ops > 0
  /\ ops' = ops - 1
  /\ UNCHANGED <<replacer, rop, page_table, free_list, next_page_id, disk, pc, lv, held, committed, extVars>>

(* FlushPage: one latched section. [ret, pages, disk] *)

\* FlushPage as it would be without is_dirty_ = false.
FlushPageCode_KeepsDirty(pg, pt, d, page_id) ==
  IF ~Resident(pt, page_id) THEN [ret |-> FALSE, pages |-> pg, disk |-> d]
  ELSE [ret |-> TRUE, pages |-> pg,
        disk |-> WritePage(d, pg[pt[page_id]].page_id, pg[pt[page_id]].data)]

FlushPageCode(pg, pt, d, page_id) ==
  IF ~Resident(pt, page_id) THEN [ret |-> FALSE, pages |-> pg, disk |-> d]
  ELSE LET fid == pt[page_id] IN
       [ret |-> TRUE,
        pages |-> [pg EXCEPT ![fid].is_dirty = FALSE],
        disk |-> WritePage(d, pg[fid].page_id, pg[fid].data)]

FlushPageCall(t, page_id) ==
  /\ pc[t] = "idle" /\ LatchFree
  /\ LET fl == FlushPageCode(pages, page_table, disk, page_id) IN
     /\ pages' = fl.pages
     /\ disk' = fl.disk
  /\ UNCHANGED <<replacer, rop, page_table, free_list, next_page_id, pc, lv, held, committed, ops, extVars>>

FlushPage(t) == \E page_id \in ArgPageIds : FlushPageCall(t, page_id)

(* DeletePage *)

\* Lines 206-226 as they would be without the write of a dirty page.
DeletePageCode_NoWrite(pg, pt, d, r, page_id) ==
  IF ~Resident(pt, page_id)
    THEN [returned |-> TRUE, ret |-> TRUE, threw |-> FALSE, fid |-> -1,
          page_table |-> pt, disk |-> d, replacer |-> r]
  ELSE LET fid == pt[page_id] IN
       IF pg[fid].pin_count > 0
         THEN [returned |-> TRUE, ret |-> FALSE, threw |-> FALSE, fid |-> fid,
               page_table |-> pt, disk |-> d, replacer |-> r]
       ELSE [returned |-> FALSE, ret |-> TRUE, threw |-> RemoveThrows(r, fid), fid |-> fid,
             page_table |-> MapErase(pt, page_id), disk |-> d, replacer |-> Remove(r, fid)]

\* Lines 206-226: [returned, ret, threw, fid, page_table, disk, replacer]; returned
\* tells that the call ended here with ret, threw that Remove threw with latch_ held.
DeletePageCode(pg, pt, d, r, page_id) ==
  IF ~Resident(pt, page_id)
    THEN [returned |-> TRUE, ret |-> TRUE, threw |-> FALSE, fid |-> -1,
          page_table |-> pt, disk |-> d, replacer |-> r]
  ELSE LET fid == pt[page_id] IN
       IF pg[fid].pin_count > 0
         THEN [returned |-> TRUE, ret |-> FALSE, threw |-> FALSE, fid |-> fid,
               page_table |-> pt, disk |-> d, replacer |-> r]
       ELSE [returned |-> FALSE, ret |-> TRUE, threw |-> RemoveThrows(r, fid), fid |-> fid,
             page_table |-> MapErase(pt, page_id),
             disk |-> IF pg[fid].is_dirty THEN WritePage(d, pg[fid].page_id, pg[fid].data) ELSE d,
             replacer |-> Remove(r, fid)]

DP_DetachCall(t, page_id) ==
  /\ pc[t] = "idle" /\ LatchFree
  /\ LET dl == DeletePageCode(pages, page_table, disk, replacer, page_id) IN
     /\ page_table' = dl.page_table
     /\ disk' = dl.disk
     /\ replacer' = dl.replacer
     /\ pc' = [pc EXCEPT ![t] = IF dl.returned THEN "idle"
                                ELSE IF dl.threw THEN "dp_threw" ELSE "dp_reset"]
     /\ lv' = [lv EXCEPT ![t] = IF dl.returned THEN NoLocals
                                ELSE [NoLocals EXCEPT !.page_id = page_id, !.fid = dl.fid]]
  /\ UNCHANGED <<rop, pages, free_list, next_page_id, held, committed, ops, extVars>>

DP_Detach(t) == \E page_id \in ArgPageIds : DP_DetachCall(t, page_id)

\* Lines 227-230, unlatched.
DP_Reset(t) ==
  /\ pc[t] = "dp_reset"
  /\ pages' = [pages EXCEPT ![lv[t].fid] = Page0]
  /\ pc' = [pc EXCEPT ![t] = "dp_free"]
  /\ UNCHANGED <<replacer, rop, page_table, free_list, next_page_id, disk, lv, held, committed, ops, extVars>>

\* Lines 231-236.
DP_Free(t) ==
  /\ pc[t] = "dp_free" /\ LatchFree
  /\ free_list' = Append(free_list, lv[t].fid)
  /\ pc' = [pc EXCEPT ![t] = "idle"]
  /\ lv' = [lv EXCEPT ![t] = NoLocals]
  /\ UNCHANGED <<replacer, rop, pages, page_table, next_page_id, disk, held, committed, ops, extVars>>

-----------------------------------------------------------------------------
(* The pool's specifications. *)

Init ==
  /\ replacer = NewReplacer(pool_size, replacer_k)
  /\ rop = NoCall
  /\ PoolInit
  /\ ClientsInit(MaxOps)
  /\ ExtIdle

\* NewPage, FetchPage, UnpinPage and the client's writes, by thread t.
CoreStep(t) ==
  \/ NP_Acquire(t) \/ NP_Meta(t) \/ NP_Register(t)
  \/ FP_Lookup(t) \/ FP_Meta(t) \/ FP_Read(t) \/ FP_Relock(t) \/ FP_Record(t)
  \/ UnpinPage(t) \/ WriteData(t)

\* FlushPage and DeletePage, by thread t.
FlushDeleteStep(t) ==
  \/ FlushPage(t)
  \/ DP_Detach(t) \/ DP_Reset(t) \/ DP_Free(t)

Next == \E t \in Threads : CoreStep(t) \/ FlushDeleteStep(t)

\* Two concurrent clients, every pool method but FlushAllPages.
Spec == Init /\ [][Next]_vars

\* The pool after one client has run NewPage (page 0, frame 1), UnpinPage(0, false),
\* NewPage (page 1, frame 0), UnpinPage(1, false), NewPage (page 2, evicting page 0
\* from frame 1), UnpinPage(2, false): both frames hold an unpinned page, the free
\* list is empty, page 0 is on disk only.
WarmPool ==
  /\ replacer = [NewReplacer(pool_size, replacer_k) EXCEPT
                   !.node_store = [f \in Frames |-> [history |-> <<f + 2>>, is_evictable |-> TRUE]],
                   !.curr_size = 2, !.current_timestamp = 3]
  /\ pages = [f \in Frames |-> [page_id |-> f + 1, pin_count |-> 0, is_dirty |-> FALSE, data |-> 0]]
  /\ page_table = [p \in {1, 2} |-> p - 1]
  /\ free_list = <<>>
  /\ next_page_id = 3
  /\ disk = [p \in PageIds |-> 0]

InitCore ==
  /\ WarmPool
  /\ rop = NoCall
  /\ ClientsInit(MaxCoreOps)
  /\ ExtIdle

NextCore == \E t \in Threads : CoreStep(t)

\* Two concurrent clients calling NewPage, FetchPage and UnpinPage on a full pool.
SpecCore == InitCore /\ [][NextCore]_vars

-----------------------------------------------------------------------------
(* FlushAllPages (lines 194-203) next to NewPage, FetchPage, UnpinPage and *)
(* DeletePage. The loop's pointer ptr is kept as a frame id in lv[t].fid.  *)

\* NewPage, FetchPage calls and changes of a page's bytes in one run of SpecFlushAll.
MaxFlushOps == 2

\* The loop's ++ptr: the next frame, or the return after the last one.
FA_Advance(t) ==
  IF lv[t].fid + 1 < pool_size
  THEN /\ pc' = [pc EXCEPT ![t] = "fa_test"]
       /\ lv' = [lv EXCEPT ![t].fid = @ + 1]
  ELSE /\ pc' = [pc EXCEPT ![t] = "idle"]
       /\ lv' = [lv EXCEPT ![t] = NoLocals]

\* Line 195: ptr = pages_.
FA_Begin(t) ==
  /\ pc[t] = "idle"
  /\ pc' = [pc EXCEPT ![t] = "fa_test"]
  /\ lv' = [lv EXCEPT ![t] = [NoLocals EXCEPT !.fid = 0]]
  /\ UNCHANGED <<replacer, rop, pages, page_table, free_list, next_page_id, disk, held, committed, ops, extVars>>

\* Line 196: the test of ptr->page_id_, read without latch_.
FA_Test(t) ==
  /\ pc[t] = "fa_test"
  /\ IF pages[lv[t].fid].page_id # INVALID_PAGE_ID
       THEN pc' = [pc EXCEPT ![t] = "fa_write"] /\ lv' = lv
     ELSE FA_Advance(t)
  /\ UNCHANGED <<replacer, rop, pages, page_table, free_list, next_page_id, disk, held, committed, ops, extVars>>

\* Lines 197-200: under latch_, the frame's buffer is written under the page id the
\* frame has now, whatever page_table_ says, and its dirty flag is cleared.
FA_Write(t) ==
  /\ pc[t] = "fa_write" /\ LatchFree
  /\ disk' = WritePage(disk, pages[lv[t].fid].page_id, pages[lv[t].fid].data)
  /\ pages' = [pages EXCEPT ![lv[t].fid].is_dirty = FALSE]
  /\ FA_Advance(t)
  /\ UNCHANGED <<replacer, rop, page_table, free_list, next_page_id, held, committed, ops, extVars>>

FlushAllPages(t) == FA_Begin(t) \/ FA_Test(t) \/ FA_Write(t)

\* The pool after one client has run NewPage (page 0, frame 1), changed the page's
\* bytes, UnpinPage(0, true), NewPage (page 1, frame 0), UnpinPage(1, false), NewPage
\* (page 2, evicting page 0 from frame 1 and writing it), UnpinPage(2, false): page 0 is
\* on disk only, with the bytes the client wrote.
WrittenPool ==
  /\ replacer = [NewReplacer(pool_size, replacer_k) EXCEPT
                   !.node_store = [f \in Frames |-> [history |-> <<f + 2>>, is_evictable |-> TRUE]],
                   !.curr_size = 2, !.current_timestamp = 3]
  /\ pages = [f \in Frames |-> [page_id |-> f + 1, pin_count |-> 0, is_dirty |-> FALSE, data |-> 0]]
  /\ page_table = [p \in {1, 2} |-> p - 1]
  /\ free_list = <<>>
  /\ next_page_id = 3
  /\ disk = [p \in PageIds |-> IF p = 0 THEN 1 ELSE 0]

InitFlushAll ==
  /\ WrittenPool
  /\ rop = NoCall
  /\ pc = [t \in Threads |-> "idle"]
  /\ lv = [t \in Threads |-> NoLocals]
  /\ held = [t \in Threads |-> [p \in PageIds |-> NoFrame]]
  /\ committed = [p \in PageIds |-> IF p = 0 THEN 1 ELSE 0]
  /\ ops = MaxFlushOps
  /\ ExtIdle

NextFlushAll ==
  \E t \in Threads :
    \/ CoreStep(t)
    \/ DP_Detach(t) \/ DP_Reset(t) \/ DP_Free(t)
    \/ FlushAllPages(t)

\* Two concurrent clients calling FlushAllPages, NewPage, FetchPage, UnpinPage and
\* DeletePage on a full pool.
SpecFlushAll == InitFlushAll /\ [][NextFlushAll]_vars

\* C34: every write FlushAllPages issues for a page id p carries the contents of a
\* frame holding p's data: never the buffer of a frame that FetchPage has given page
\* id p and reset but not yet filled from disk.
C34_FlushAllWritesLoaded ==
  [][\A t \in Threads :
       FA_Write(t) /\ pages[lv[t].fid].page_id # INVALID_PAGE_ID
         => \A u \in Threads : ~(pc[u] = "fp_read" /\ lv[u].fid = lv[t].fid)]_vars

-----------------------------------------------------------------------------
(* Claims about the replacer, stated over the last Evict call (rop). *)

HistoryOf(r, f) == r.node_store[f].history
\* The oldest timestamp a history holds: its back.
Oldest(h) == h[Len(h)]
\* f's K-distance is at least g's: f has fewer than k accesses (+infinity), or both have
\* k accesses and f's k-th most recent access is not later than g's.
KDistanceAtLeast(r, f, g) ==
  \/ Len(HistoryOf(r, f)) < r.k
  \/ /\ Len(HistoryOf(r, g)) = r.k
     /\ Oldest(HistoryOf(r, f)) <= Oldest(HistoryOf(r, g))

\* C8: whenever some frame is evictable, Evict returns an evictable frame whose
\* K-distance is the largest: no evictable frame has a larger one (a frame with fewer
\* than k accesses beats every frame with k accesses; among frames with k accesses the
\* one whose k-th most recent access is the smallest wins).
C8_EvictLargestKDistance ==
  rop.op = "Evict" /\ EvictableIn(rop.pre) # {} =>
    /\ rop.ok
    /\ rop.frame_id \in EvictableIn(rop.pre)
    /\ \A g \in EvictableIn(rop.pre) : KDistanceAtLeast(rop.pre, rop.frame_id, g)

\* C9: when k >= 2 and at least two evictable frames have between 1 and k-1 recorded
\* accesses (and none has an empty history), Evict returns the one of them whose
\* earliest recorded access is the oldest.
C9_EvictEarliestAmongInf ==
  rop.op = "Evict" =>
    LET r == rop.pre
        Inf == {g \in EvictableIn(r) : Len(HistoryOf(r, g)) >= 1 /\ Len(HistoryOf(r, g)) < r.k}
    IN (/\ r.k >= 2
        /\ Cardinality(Inf) >= 2
        /\ \A g \in EvictableIn(r) : HistoryOf(r, g) # <<>>)
       => /\ rop.ok
          /\ rop.frame_id \in Inf
          /\ \A g \in Inf : Oldest(HistoryOf(r, rop.frame_id)) <= Oldest(HistoryOf(r, g))

\* C10: Evict succeeds exactly when some frame is evictable; the frame it returns was
\* evictable at the call, and afterwards is not evictable, has an empty history, and
\* Size() is one less; a failed Evict leaves the whole replacer as it was.
C10_EvictSafety ==
  rop.op = "Evict" =>
    /\ rop.ok <=> EvictableIn(rop.pre) # {}
    /\ rop.ok =>
         /\ rop.frame_id \in EvictableIn(rop.pre)
         /\ rop.frame_id \notin EvictableIn(replacer)
         /\ HistoryOf(replacer, rop.frame_id) = <<>>
         /\ Size(replacer) = Size(rop.pre) - 1
         /\ replacer.current_timestamp = rop.pre.current_timestamp
    /\ ~rop.ok => replacer = rop.pre

\* An Evict that had two evictable frames to choose from has returned one of them.
C10_Witness ==
  /\ rop.op = "Evict" /\ rop.ok
  /\ Cardinality(EvictableIn(rop.pre)) >= 2
  /\ Size(replacer) = Size(rop.pre) - 1
\* The call that has just returned threw.
Threw(o) == o.op \in {"RecordAccess", "SetEvictable", "Remove"} /\ o.threw

\* C28: Size() is the number of frames whose evictable flag is set.  SetEvictable
\* changes Size() by one, up or down, when it flips a flag and leaves the replacer as
\* it was when it repeats a flag; RecordAccess never changes Size(); Remove and Evict
\* of an evictable frame take exactly one from it.
C28_SizeCountsEvictable ==
  /\ [](/\ Size(replacer) = Cardinality(EvictableIn(replacer))
        /\ \A f \in Tracked(replacer), b \in BOOLEAN :
             LET s == SetEvictable(replacer, f, b) IN
             /\ b # replacer.node_store[f].is_evictable
                  => Size(s) = Size(replacer) + (IF b THEN 1 ELSE -1)
             /\ b = replacer.node_store[f].is_evictable => s = replacer
             /\ SetEvictable(s, f, b) = s
        /\ \A f \in EvictableIn(replacer) :
             Size(Remove(replacer, f)) = Size(replacer) - 1)
  /\ [][/\ rop'.op = "RecordAccess" => Size(replacer') = Size(replacer)
        /\ rop'.op = "SetEvictable" =>
             Size(replacer') - Size(replacer) =
               Cardinality(EvictableIn(replacer') \ EvictableIn(replacer))
               - Cardinality(EvictableIn(replacer) \ EvictableIn(replacer'))
        /\ (rop'.op = "Remove" /\ EvictableIn(replacer') # EvictableIn(replacer))
             => Size(replacer') = Size(replacer) - 1
        /\ (rop'.op = "Evict" /\ rop'.ok) => Size(replacer') = Size(replacer) - 1]_vars

\* A Remove has taken one of three evictable frames: Size() went from three to two.
C28_Witness ==
  /\ rop.op = "Remove" /\ ~rop.threw
  /\ Size(replacer) = 2
  /\ Cardinality(Tracked(replacer) \ EvictableIn(replacer)) = 1

\* h is strictly decreasing from its front.
Decreasing(h) == \A i \in 1..Len(h) - 1 : h[i] > h[i + 1]

\* C29: a frame's history holds at most k timestamps, the newest first and strictly
\* decreasing, all of them values the one counter has had; a RecordAccess that returns
\* adds one to the counter and puts the new value at the front of one history, whose
\* oldest entry goes when it already held k.
C29_HistoryShape ==
  /\ [](\A f \in Tracked(replacer) :
          LET h == HistoryOf(replacer, f) IN
          /\ Len(h) <= replacer.k
          /\ Decreasing(h)
          /\ \A i \in 1..Len(h) : h[i] \in 1..replacer.current_timestamp)
  /\ [][(rop'.op = "RecordAccess" /\ ~rop'.threw) =>
         /\ replacer'.current_timestamp = replacer.current_timestamp + 1
         /\ \E f \in Tracked(replacer') :
              LET h == IF f \in Tracked(replacer) THEN HistoryOf(replacer, f) ELSE <<>>
                  g == HistoryOf(replacer', f)
              IN /\ g = <<replacer'.current_timestamp>>
                           \o (IF Len(h) = replacer.k THEN SubSeq(h, 1, Len(h) - 1) ELSE h)
                 /\ \A e \in Tracked(replacer') \ {f} :
                      e \in Tracked(replacer)
                        /\ HistoryOf(replacer', e) = HistoryOf(replacer, e)]_vars

\* A frame of a replacer with k = 2 has been accessed a third time: its history is
\* full and no longer holds its first timestamp, which was 1.
C29_Witness ==
  /\ rop.op = "RecordAccess" /\ ~rop.threw
  /\ replacer.k = 2 /\ replacer.current_timestamp = 3
  /\ \E f \in Tracked(replacer) : HistoryOf(replacer, f) = <<3, 2>>

\* C30: Remove of a tracked frame that is not evictable throws, and so do RecordAccess
\* and SetEvictable of a frame id outside [0, num_frames); a call that throws leaves
\* every history, every flag, Size() and the timestamp counter as they were.
C30_ThrowChangesNothing ==
  /\ [](/\ \A f \in Tracked(replacer) \ EvictableIn(replacer) :
             RemoveThrows(replacer, f) /\ Remove(replacer, f) = replacer
        /\ \A f \in RepArgs \ (0..replacer.replacer_size - 1) :
             /\ InvalidFrame(replacer, f)
             /\ RecordAccess(replacer, f) = replacer
             /\ \A b \in BOOLEAN : SetEvictable(replacer, f, b) = replacer)
  /\ [][Threw(rop') => replacer' = replacer]_vars

\* A Remove of a pinned frame has thrown in a replacer that holds a history and an
\* evictable frame.
C30_Witness ==
  /\ Threw(rop) /\ rop.op = "Remove"
  /\ Size(replacer) >= 1
  /\ replacer.current_timestamp >= 2

\* Frame f has had no RecordAccess since its last Remove or Evict, or ever.
Unaccessed(r, f) == f \notin Tracked(r) \/ HistoryOf(r, f) = <<>>

\* C31: SetEvictable(f, true) on a frame with no RecordAccess since it was last
\* removed or evicted, or ever, leaves Size() as it was, and Evict returns such a
\* frame neither before nor after that call.
C31_UnaccessedNotTracked ==
  \A f \in 0..(RepFrames - 1) :
    Unaccessed(replacer, f) =>
      LET s == SetEvictable(replacer, f, TRUE) IN
      /\ Size(s) = Size(replacer)
      /\ \A order \in IterationOrders(replacer) : Evict(replacer, order).frame_id # f
      /\ \A order \in IterationOrders(s) : Evict(s, order).frame_id # f

-----------------------------------------------------------------------------
(* Claims about the buffer pool.  Clients are as described above: a pin is given   *)
(* back once, by a client that holds it.                                           *)

Range(f) == {f[x] : x \in DOMAIN f}
Holders(p) == {t \in Threads : held[t][p] # NoFrame}
\* Threads inside FetchPage(p) that have their pin on p's frame and have not returned.
Returning(p) == {t \in Threads : pc[t] = "fp_record" /\ lv[t].page_id = p}
\* Frames a thread has taken out of the free list, the replacer or the page table and
\* not yet bound or given back.
InHand == {lv[t].fid : t \in {u \in Threads : pc[u] \in {"np_meta", "np_register", "fp_meta",
                                  "fp_read", "fp_relock", "dp_reset", "dp_free"}}}

\* C1: in every reachable state under concurrent NewPage, FetchPage, UnpinPage and
\* DeletePage, the frame of a resident page with pin_count > 0 is not evictable in the
\* replacer, and whichever frame Evict would select (for any visiting order of
\* node_store_) has pin_count = 0.
C1_PinnedNotEvictable ==
  /\ \A p \in DOMAIN page_table :
       pages[page_table[p]].pin_count > 0 => page_table[p] \notin EvictableIn(replacer)
  /\ \A order \in IterationOrders(replacer) :
       LET e == Evict(replacer, order) IN e.ok => pages[e.frame_id].pin_count = 0

\* The free list is empty, one resident page is pinned, another frame is evictable, and
\* a call that needs a frame can start: the next NewPage evicts.
C1_Witness ==
  /\ free_list = <<>> /\ ops > 0 /\ LatchFree
  /\ \E p \in DOMAIN page_table : pages[page_table[p]].pin_count > 0
  /\ \E order \in IterationOrders(replacer) : Evict(replacer, order).ok
  /\ \E t \in Threads : pc[t] = "idle"

\* C2: a client that holds page p from FetchPage sees contents at least as new as the
\* newest contents any client released with UnpinPage(p, true) before.
C2_NoStaleFetch ==
  \A t \in Threads, p \in PageIds :
    held[t][p] # NoFrame => pages[held[t][p]].data >= committed[p]

\* C3: page_table_ maps no two pages to one frame; every client that holds page p holds
\* the frame page_table_ maps p to; that frame's pin_count is the number of clients that
\* got p and have not unpinned it; and every frame that is neither bound to a page nor
\* in a thread's hands (so every frame a losing fetcher gave up) is in the free list
\* with page_id INVALID and pin_count 0.
C3_FetchersConverge ==
  /\ \A p, q \in DOMAIN page_table : page_table[p] = page_table[q] => p = q
  /\ \A p \in PageIds : \A t \in Holders(p) :
       Resident(page_table, p) /\ held[t][p] = page_table[p]
  /\ \A p \in DOMAIN page_table :
       pages[page_table[p]].pin_count = Cardinality(Holders(p)) + Cardinality(Returning(p))
  /\ \A f \in Frames \ (Range(page_table) \cup InHand) :
       /\ f \in Range(free_list)
       /\ pages[f].page_id = INVALID_PAGE_ID
       /\ pages[f].pin_count = 0

\* Two clients fetched a non-resident page at the same time; the one that came second
\* gave up its frame and took the other's, which now has both pins.
C3_Witness ==
  \E t \in Threads, u \in Threads :
    /\ pc[t] = "fp_record" /\ lv[t].adopted
    /\ held[u][lv[t].page_id] = lv[t].fid
    /\ pages[lv[t].fid].pin_count = 2
    /\ free_list # <<>>

\* C4: UnpinPage(p, d) on a resident page with pin_count > 0 returns true, lowers
\* pin_count by one, leaves is_dirty = (old is_dirty OR d), and the frame is evictable
\* afterwards exactly when pin_count has reached zero; on a page that is not resident or
\* has pin_count = 0 it returns false and changes neither the frames nor the replacer.
C4_UnpinPage ==
  [][\A t \in Threads, p \in ArgPageIds, d \in BOOLEAN :
       UnpinPageCall(t, p, d) =>
         LET u == UnpinPageCode(pages, page_table, replacer, p, d) IN
         IF Resident(page_table, p)
           THEN LET fid == page_table[p] IN
                IF pages[fid].pin_count > 0
                  THEN /\ u.ret
                       /\ pages'[fid].pin_count = pages[fid].pin_count - 1
                       /\ pages'[fid].is_dirty = (pages[fid].is_dirty \/ d)
                       /\ (fid \in EvictableIn(replacer')) <=> (pages'[fid].pin_count = 0)
                       /\ \A g \in Frames \ {fid} : pages'[g] = pages[g]
                ELSE ~u.ret /\ pages' = pages /\ replacer' = replacer
         ELSE ~u.ret /\ pages' = pages /\ replacer' = replacer]_vars

\* A dirty page was unpinned with is_dirty = false by its last holder: it is still dirty,
\* and evictable.
C4_Witness ==
  \E p \in DOMAIN page_table :
    /\ pages[page_table[p]].pin_count = 0
    /\ pages[page_table[p]].is_dirty
    /\ page_table[p] \in EvictableIn(replacer)
    /\ replacer.current_timestamp >= 2
    /\ next_page_id = 1

\* C5: DeletePage(p) returns true and changes nothing when p is not resident; returns
\* false and changes nothing when p is pinned; otherwise it writes p to disk if dirty,
\* takes p out of page_table_, leaves the frame not evictable with Size() one less,
\* returns true, and ends with the frame in the free list, page_id INVALID, pin_count 0.
C5_DeletePage ==
  [][/\ \A t \in Threads, p \in ArgPageIds :
          DP_DetachCall(t, p) =>
            LET dl == DeletePageCode(pages, page_table, disk, replacer, p) IN
            IF ~Resident(page_table, p) THEN dl.ret /\ UNCHANGED vars
            ELSE LET fid == page_table[p] IN
                 IF pages[fid].pin_count > 0 THEN ~dl.ret /\ UNCHANGED vars
                 ELSE /\ dl.ret /\ ~dl.threw
                      /\ disk' = IF pages[fid].is_dirty
                                   THEN [disk EXCEPT ![p] = pages[fid].data] ELSE disk
                      /\ ~Resident(page_table', p)
                      /\ \A q \in DOMAIN page_table \ {p} :
                           Resident(page_table', q) /\ page_table'[q] = page_table[q]
                      /\ fid \in EvictableIn(replacer)
                      /\ fid \notin EvictableIn(replacer')
                      /\ Size(replacer') = Size(replacer) - 1
                      /\ pc'[t] = "dp_reset"
     /\ \A t \in Threads :
          DP_Free(t) =>
            /\ lv[t].fid \in Range(free_list')
            /\ pages'[lv[t].fid].page_id = INVALID_PAGE_ID
            /\ pages'[lv[t].fid].pin_count = 0
            /\ pages'[lv[t].fid].is_dirty = FALSE]_vars

\* The only page there ever was has been written to, unpinned dirty and deleted: it is
\* on disk with its new bytes, and every frame is free again.
C5_Witness ==
  /\ next_page_id = 1
  /\ ~Resident(page_table, 0)
  /\ disk[0] > 0
  /\ Len(free_list) = pool_size
  /\ \A t \in Threads : pc[t] = "idle"
  /\ \A f \in Frames : pages[f] = Page0

\* C6: FlushPage(p) on a resident page returns true, puts the frame's bytes on disk as
\* block p and clears is_dirty, whatever pin_count is, and leaves page_table_, pin_count
\* and the replacer alone; on a page that is not resident it returns false and the disk
\* stays as it was.  A FetchPage(p) that follows finds the frame with the bytes that
\* were flushed and is_dirty clear, and the block it would read from disk is the same.
C6_FlushPage ==
  [][\A t \in Threads, p \in ArgPageIds :
       FlushPageCall(t, p) =>
         LET fl == FlushPageCode(pages, page_table, disk, p) IN
         IF Resident(page_table, p)
           THEN LET fid == page_table[p]
                    hit == PinExisting(pages', replacer', page_table'[p])
                IN /\ fl.ret
                   /\ disk' = [disk EXCEPT ![p] = pages[fid].data]
                   /\ pages' = [pages EXCEPT ![fid].is_dirty = FALSE]
                   /\ page_table' = page_table
                   /\ replacer' = replacer
                   /\ hit.pages[page_table'[p]].data = pages[fid].data
                   /\ ~hit.pages[page_table'[p]].is_dirty
                   /\ ReadPage(disk', p) = pages[fid].data
         ELSE ~fl.ret /\ disk' = disk /\ pages' = pages]_vars

\* A page that a client has changed and still has pinned was flushed: its block on disk
\* has the new bytes, and nobody has released them with UnpinPage.
C6_Witness ==
  \E p \in DOMAIN page_table :
    /\ pages[page_table[p]].pin_count > 0
    /\ pages[page_table[p]].data > 0
    /\ disk[p] = pages[page_table[p]].data
    /\ ~pages[page_table[p]].is_dirty
    /\ committed[p] = 0
    /\ next_page_id = 1

\* C7: when the free list is empty and no frame is evictable, NewPage and FetchPage of a
\* page that is not resident get no frame (they return nullptr: the caller is idle again
\* and holds nothing new), and page_table_, the free list, the frames, the replacer and
\* next_page_id are as before.
C7_NoFrameNoChange ==
  [][free_list = <<>> /\ EvictableIn(replacer) = {} =>
       \A t \in Threads, order \in IterationOrders(replacer) :
         /\ NP_AcquireWith(t, order) =>
              /\ ~TakeFrame(order).ok
              /\ pc'[t] = "idle" /\ held' = held
              /\ UNCHANGED <<page_table, free_list, pages, replacer, next_page_id>>
         /\ \A p \in PageIds \ DOMAIN page_table :
              FP_LookupWith(t, p, order) =>
                /\ ~TakeFrame(order).ok
                /\ pc'[t] = "idle" /\ held' = held
                /\ UNCHANGED <<page_table, free_list, pages, replacer, next_page_id>>]_vars

\* Both frames hold pinned pages, a third page is on disk only, and an idle client may
\* call NewPage or FetchPage of that page.
C7_Witness ==
  /\ free_list = <<>> /\ EvictableIn(replacer) = {} /\ LatchFree
  /\ \A f \in Frames : pages[f].pin_count > 0 /\ f \in Range(page_table)
  /\ next_page_id < MaxPages
  /\ \E t \in Threads, p \in PageIds \ DOMAIN page_table :
       pc[t] = "idle" /\ p \in HandedOut /\ held[t][p] = NoFrame

\* The steps of thread t that run between latch_.lock() and latch_.unlock().
LatchedSection(t) ==
  \/ NP_Acquire(t) \/ NP_Register(t)
  \/ FP_Lookup(t) \/ FP_Relock(t) \/ FP_Record(t)
  \/ UnpinPage(t) \/ FlushPage(t)
  \/ DP_Detach(t) \/ DP_Free(t)

\* C23: the pool's latch is not held while a disk read or write is made: no step
\* that runs under the latch changes a block of the disk, and the read of FetchPage
\* is a step outside the latch.
C23_NoDiskIOUnderLatch ==
  [][\A t \in Threads :
       /\ LatchedSection(t) => disk' = disk
       /\ FP_Read(t) => ~LatchedSection(t)]_vars

\* Frames of the free list.
FreeFrames == Range(free_list)

\* C24: page_table_ maps different page ids to different frames, no frame is twice in
\* the free list, and no frame is in the free list and in page_table_; when no pool
\* call is running, every frame is in the free list with page id INVALID_PAGE_ID or
\* is the frame of exactly one page id.
C24_FrameBookkeeping ==
  /\ \A p, q \in DOMAIN page_table : p # q => page_table[p] # page_table[q]
  /\ \A i, j \in 1..Len(free_list) : i # j => free_list[i] # free_list[j]
  /\ FreeFrames \cap Range(page_table) = {}
  /\ (\A t \in Threads : pc[t] = "idle") =>
       \A f \in Frames :
         IF f \in FreeFrames
           THEN pages[f].page_id = INVALID_PAGE_ID /\ f \notin Range(page_table)
         ELSE Cardinality({p \in DOMAIN page_table : page_table[p] = f}) = 1

\* No call is running; two pages were allocated and one of their frames is back on
\* the free list while the other is still bound to its page.
C24_Witness ==
  /\ \A t \in Threads : pc[t] = "idle"
  /\ next_page_id = 2
  /\ Len(free_list) = 1 /\ Cardinality(DOMAIN page_table) = 1
  /\ pages[free_list[1]].page_id = INVALID_PAGE_ID

-----------------------------------------------------------------------------
(* Page guards (src/storage/page/page_guard.cpp): BasicPageGuard,          *)
(* ReadPageGuard and WritePageGuard objects made by the pool's guard       *)
(* factories, then moved, move-assigned, dropped and destroyed in every    *)
(* order by one thread.                                                    *)

\* A null Page* / BufferPoolManager*.
nullptr == -1
\* Guard objects that exist at the same time.
MaxGuards == 3
\* FetchPage* / NewPageGuarded calls of a run.
MaxPins == 2
GuardIds == 1..MaxGuards
GPages == {0, 1}
GuardKinds == {"basic", "read", "write"}

\* The storage of a guard object that is not constructed.
NoGuard == [alive |-> FALSE, kind |-> "basic", bpm |-> FALSE, page |-> nullptr, is_dirty |-> FALSE]

\* fetched[p] and unpinned[p] count the pins the pool handed out for page p and the
\* UnpinPage(p, _) calls it received; call is the last UnpinPage call; readers and
\* writer are the page's reader-writer latch; fault: the process dereferenced nullptr;
\* ev lists, in call order, the latch and UnpinPage calls made by the last guard operation.
GuardsInit ==
  gd = [obj |-> [s \in GuardIds |-> NoGuard],
        fetched |-> [p \in GPages |-> 0],
        unpinned |-> [p \in GPages |-> 0],
        readers |-> [p \in GPages |-> 0],
        writer |-> [p \in GPages |-> FALSE],
        call |-> [page |-> nullptr, is_dirty |-> FALSE],
        fault |-> FALSE,
        ev |-> <<>>]

\* BasicPageGuard::Drop on guard s: the call goes through bpm_ and page_ unconditionally.
BasicDrop(g, s) ==
  LET o == g.obj[s] IN
  IF o.page = nullptr
  THEN [g EXCEPT !.fault = TRUE]
  ELSE [g EXCEPT !.unpinned[o.page] = @ + 1,
                 !.call = [page |-> o.page, is_dirty |-> o.is_dirty],
                 !.ev = Append(@, [e |-> "UnpinPage", page |-> o.page]),
                 !.obj[s].bpm = FALSE, !.obj[s].page = nullptr, !.obj[s].is_dirty = FALSE]

\* Read/Write Drop() that calls guard_.Drop() before it unlatches the page.
GuardDrop_UnpinFirst(g, s) ==
  LET o == g.obj[s] IN
  IF o.kind = "basic" THEN BasicDrop(g, s)
  ELSE IF o.page = nullptr THEN [g EXCEPT !.fault = TRUE]
  ELSE LET g1 == BasicDrop(g, s) IN
       IF o.kind = "read"
       THEN [g1 EXCEPT !.readers[o.page] = @ - 1,
                       !.ev = Append(@, [e |-> "RUnlatch", page |-> o.page])]
       ELSE [g1 EXCEPT !.writer[o.page] = FALSE,
                       !.ev = Append(@, [e |-> "WUnlatch", page |-> o.page])]

\* Drop() of guard s, by its class: Read/Write unlatch through guard_.page_ first.
GuardDrop(g, s) ==
  LET o == g.obj[s] IN
  IF o.kind = "basic" THEN BasicDrop(g, s)
  ELSE IF o.page = nullptr THEN [g EXCEPT !.fault = TRUE]
  ELSE IF o.kind = "read"
       THEN BasicDrop([g EXCEPT !.readers[o.page] = @ - 1,
                                !.ev = Append(@, [e |-> "RUnlatch", page |-> o.page])], s)
  ELSE BasicDrop([g EXCEPT !.writer[o.page] = FALSE,
                           !.ev = Append(@, [e |-> "WUnlatch", page |-> o.page])], s)

\* A move that leaves the source guard as it was.
GuardExchange_Copy(g, d, s) ==
  [g EXCEPT !.obj[d].bpm = g.obj[s].bpm, !.obj[d].page = g.obj[s].page,
            !.obj[d].is_dirty = g.obj[s].is_dirty]

\* The three std::exchange of a move: that (s) is emptied, this (d) gets its old fields.
GuardExchange(g, d, s) ==
  LET o == g.obj[s] IN
  [g EXCEPT !.obj[s].bpm = FALSE, !.obj[s].page = nullptr, !.obj[s].is_dirty = FALSE,
            !.obj[d].bpm = o.bpm, !.obj[d].page = o.page, !.obj[d].is_dirty = o.is_dirty]

\* operator=(that): drop this guard if it holds a page, then take that's fields.
GuardAssign(g, d, s) ==
  LET g1 == IF g.obj[d].page # nullptr THEN GuardDrop(g, d) ELSE g IN
  GuardExchange(g1, d, s)

\* ~Guard(): drop if the guard holds a page; the object is gone.
GuardDestroy(g, s) ==
  LET g1 == IF g.obj[s].page # nullptr THEN GuardDrop(g, s) ELSE g IN
  [g1 EXCEPT !.obj[s] = NoGuard]

\* The latch of page p can be taken by a new guard of class k.
LatchGrants(g, k, p) ==
  IF k = "read" THEN ~g.writer[p]
  ELSE IF k = "write" THEN ~g.writer[p] /\ g.readers[p] = 0
  ELSE TRUE

GuardPins(g) == g.fetched[0] + g.fetched[1]

\* FetchPageBasic / FetchPageRead / FetchPageWrite / NewPageGuarded returning page p
\* pinned: the guard is built in object s; Read/Write constructors latch the page.
G_Fetch(s, k, p) ==
  /\ ~gd.fault /\ ~gd.obj[s].alive
  /\ GuardPins(gd) < MaxPins
  /\ LatchGrants(gd, k, p)
  /\ gd' = [gd EXCEPT !.obj[s] = [alive |-> TRUE, kind |-> k, bpm |-> TRUE, page |-> p, is_dirty |-> FALSE],
                      !.fetched[p] = @ + 1,
                      !.readers[p] = IF k = "read" THEN @ + 1 ELSE @,
                      !.writer[p] = IF k = "write" THEN TRUE ELSE @,
                      !.ev = IF k = "read" THEN <<[e |-> "RLatch", page |-> p]>>
                             ELSE IF k = "write" THEN <<[e |-> "WLatch", page |-> p]>>
                             ELSE <<>>]
  /\ UNCHANGED <<replacer, rop, poolVars, trie, store, tree, iter>>

\* FetchPageBasic / FetchPageRead / FetchPageWrite / NewPageGuarded when the pool has no
\* frame to give: the guard is built on a null page, with the pool as bpm_.
G_FetchFails(s, k) ==
  /\ ~gd.fault /\ ~gd.obj[s].alive
  /\ gd' = [gd EXCEPT !.obj[s] = [alive |-> TRUE, kind |-> k, bpm |-> TRUE, page |-> nullptr, is_dirty |-> FALSE],
                      !.ev = <<>>]
  /\ UNCHANGED <<replacer, rop, poolVars, trie, store, tree, iter>>

\* GetDataMut / AsMut on a basic or write guard that holds a page.
G_MarkDirty(s) ==
  /\ ~gd.fault /\ gd.obj[s].alive
  /\ gd.obj[s].page # nullptr /\ gd.obj[s].kind # "read" /\ ~gd.obj[s].is_dirty
  /\ gd' = [gd EXCEPT !.obj[s].is_dirty = TRUE, !.ev = <<>>]
  /\ UNCHANGED <<replacer, rop, poolVars, trie, store, tree, iter>>

\* Guard d(std::move(s)).
G_MoveConstruct(d, s) ==
  /\ ~gd.fault /\ ~gd.obj[d].alive /\ gd.obj[s].alive
  /\ gd' = GuardExchange([gd EXCEPT !.obj[d] = [NoGuard EXCEPT !.alive = TRUE, !.kind = gd.obj[s].kind],
                                    !.ev = <<>>], d, s)
  /\ UNCHANGED <<replacer, rop, poolVars, trie, store, tree, iter>>

\* d = std::move(s), d and s of one class; d may be s itself.
G_MoveAssign(d, s) ==
  /\ ~gd.fault /\ gd.obj[d].alive /\ gd.obj[s].alive
  /\ gd.obj[d].kind = gd.obj[s].kind
  /\ gd' = GuardAssign([gd EXCEPT !.ev = <<>>], d, s)
  /\ UNCHANGED <<replacer, rop, poolVars, trie, store, tree, iter>>

\* s.Drop().
G_Drop(s) ==
  /\ ~gd.fault /\ gd.obj[s].alive
  /\ gd' = GuardDrop([gd EXCEPT !.ev = <<>>], s)
  /\ UNCHANGED <<replacer, rop, poolVars, trie, store, tree, iter>>

\* s goes out of scope.
G_Destroy(s) ==
  /\ ~gd.fault /\ gd.obj[s].alive
  /\ gd' = GuardDestroy([gd EXCEPT !.ev = <<>>], s)
  /\ UNCHANGED <<replacer, rop, poolVars, trie, store, tree, iter>>

InitGuard ==
  /\ replacer = NewReplacer(pool_size, replacer_k)
  /\ rop = NoCall
  /\ PoolInit
  /\ ClientsInit(0)
  /\ GuardsInit
  /\ trie = <<>> /\ store = <<>> /\ tree = <<>> /\ iter = <<>>

NextGuard ==
  \/ \E s \in GuardIds, k \in GuardKinds, p \in GPages : G_Fetch(s, k, p)
  \/ \E s \in GuardIds, k \in GuardKinds : G_FetchFails(s, k)
  \/ \E s \in GuardIds : G_MarkDirty(s)
  \/ \E d \in GuardIds, s \in GuardIds : G_MoveConstruct(d, s)
  \/ \E d \in GuardIds, s \in GuardIds : G_MoveAssign(d, s)
  \/ \E s \in GuardIds : G_Drop(s)
  \/ \E s \in GuardIds : G_Destroy(s)

\* One thread using up to MaxGuards guard objects on two pages.
SpecGuard == InitGuard /\ [][NextGuard]_vars

\* Guard objects that own a pin of page p.
Owners(g, p) == {s \in GuardIds : g.obj[s].alive /\ g.obj[s].page = p}

\* The pool received exactly one more UnpinPage call: UnpinPage(o.page, o.is_dirty).
UnpinnedFor(o) ==
  /\ gd'.unpinned = [gd.unpinned EXCEPT ![o.page] = @ + 1]
  /\ gd'.call = [page |-> o.page, is_dirty |-> o.is_dirty]

\* C11: every pin handed to a guard is owned by exactly one guard object until it is
\* given back by exactly one UnpinPage call carrying the owning guard's dirty flag:
\* a Drop or destruction of a guard that holds a page unpins that page once with the
\* guard's flag; a move hands page and flag to the target, unpins nothing and leaves the
\* source empty; a moved-from guard's destruction unpins nothing; a move-assignment
\* onto a guard that holds a page unpins that page once and then takes the new one.
C11_GuardUnpinsOnce ==
  [][/\ \A p \in GPages : gd'.fetched[p] - gd'.unpinned[p] = Cardinality(Owners(gd', p))
     /\ \A s \in GuardIds :
          /\ (G_Drop(s) \/ G_Destroy(s)) /\ gd.obj[s].page # nullptr
               => UnpinnedFor(gd.obj[s]) /\ gd'.obj[s].page = nullptr /\ ~gd'.fault
          /\ G_Destroy(s) /\ gd.obj[s].page = nullptr
               => gd'.unpinned = gd.unpinned /\ ~gd'.fault
     /\ \A d \in GuardIds, s \in GuardIds :
          /\ G_MoveConstruct(d, s)
               => /\ gd'.unpinned = gd.unpinned
                  /\ gd'.obj[d].page = gd.obj[s].page /\ gd'.obj[d].is_dirty = gd.obj[s].is_dirty
                  /\ gd'.obj[s].page = nullptr
          /\ G_MoveAssign(d, s)
               => /\ IF gd.obj[d].page # nullptr THEN UnpinnedFor(gd.obj[d])
                                                 ELSE gd'.unpinned = gd.unpinned
                  /\ d # s => /\ gd'.obj[d].page = gd.obj[s].page
                              /\ gd'.obj[d].is_dirty = gd.obj[s].is_dirty
                              /\ gd'.obj[s].page = nullptr
                  /\ d = s => gd'.obj[d].page = nullptr
                  /\ ~gd'.fault]_vars

\* A dirty guard of page 0 was overwritten by a move-assignment from a dirty guard of
\* page 1: page 0 got its one unpin with the dirty flag, page 1 is still pinned once.
C11_Witness ==
  /\ ~gd.fault
  /\ gd.fetched = [p \in GPages |-> 1]
  /\ gd.unpinned = [p \in GPages |-> IF p = 0 THEN 1 ELSE 0]
  /\ gd.call = [page |-> 0, is_dirty |-> TRUE]
  /\ \E d \in GuardIds, s \in GuardIds :
       /\ d # s /\ gd.obj[d].alive /\ gd.obj[s].alive
       /\ gd.obj[d].page = 1 /\ gd.obj[d].is_dirty
       /\ gd.obj[s].page = nullptr

\* C12: Drop() on a guard that was already dropped or moved from performs no unpin,
\* releases no latch and does not fault; the destructor of such a guard does nothing.
C12_DropIdempotent ==
  [][\A s \in GuardIds :
       (G_Drop(s) \/ G_Destroy(s)) /\ gd.obj[s].page = nullptr
         => /\ ~gd'.fault
            /\ gd'.unpinned = gd.unpinned
            /\ gd'.readers = gd.readers /\ gd'.writer = gd.writer]_vars

\* The calls a Read/Write guard o that holds a page makes when it lets go of it.
UnlatchThenUnpin(o) ==
  <<[e |-> IF o.kind = "read" THEN "RUnlatch" ELSE "WUnlatch", page |-> o.page],
    [e |-> "UnpinPage", page |-> o.page]>>

\* A guard object built by a factory whose FetchPage / NewPage returned nullptr.
OnFailedFetch(o) == o.alive /\ o.bpm /\ o.page = nullptr

\* C32: a read or write guard that holds a page and is dropped, destroyed or
\* overwritten by a move-assignment releases the page's latch and then calls
\* UnpinPage for that page, in this order and nothing else; building a guard on a
\* failed fetch takes no latch, and dropping, destroying or move-assigning onto
\* such a guard releases no latch and calls no UnpinPage.
C32_UnlatchBeforeUnpin ==
  [][/\ \A s \in GuardIds :
          /\ (G_Drop(s) \/ G_Destroy(s)) /\ gd.obj[s].kind # "basic" /\ gd.obj[s].page # nullptr
               => gd'.ev = UnlatchThenUnpin(gd.obj[s])
          /\ (G_Drop(s) \/ G_Destroy(s)) /\ OnFailedFetch(gd.obj[s])
               => /\ gd'.ev = <<>> /\ gd'.unpinned = gd.unpinned
                  /\ gd'.readers = gd.readers /\ gd'.writer = gd.writer
          /\ \A k \in GuardKinds :
               G_FetchFails(s, k)
                 => /\ gd'.ev = <<>> /\ gd'.unpinned = gd.unpinned
                    /\ gd'.readers = gd.readers /\ gd'.writer = gd.writer
                    /\ gd'.fetched = gd.fetched
     /\ \A d \in GuardIds, s \in GuardIds :
          /\ G_MoveAssign(d, s) /\ gd.obj[d].kind # "basic" /\ gd.obj[d].page # nullptr
               => gd'.ev = UnlatchThenUnpin(gd.obj[d])
          /\ G_MoveAssign(d, s) /\ OnFailedFetch(gd.obj[d])
               => /\ gd'.ev = <<>> /\ gd'.unpinned = gd.unpinned
                  /\ gd'.readers = gd.readers /\ gd'.writer = gd.writer]_vars

\* A write guard of page 0 was just overwritten by a move-assignment from a guard built
\* on a failed fetch: page 0 was unlatched, then unpinned, and the null guard moved in.
C32_Witness ==
  /\ ~gd.fault
  /\ gd.ev = <<[e |-> "WUnlatch", page |-> 0], [e |-> "UnpinPage", page |-> 0]>>
  /\ ~gd.writer[0] /\ gd.fetched[0] = 1 /\ gd.unpinned[0] = 1
  /\ \E d \in GuardIds : OnFailedFetch(gd.obj[d]) /\ gd.obj[d].kind = "write"

-----------------------------------------------------------------------------
(* The persistent trie (src/primer/trie.cpp). Trie nodes live in a heap: a *)
(* sequence of nodes, a node's address being its index. A Trie is the      *)
(* address of its root, or nullptr. Put and Remove allocate nodes and      *)
(* write only into nodes they allocated, exactly where the code does.      *)

\* Put / Remove calls of a run.
MaxTrieOps == 3
TrieKeys == {<<>>, <<"a">>, <<"b">>, <<"a", "a">>, <<"a", "b">>, <<"a", "a", "a">>}
TrieValues == {1, 2}

\* std::make_shared<TrieNode>(): no children, no value.
EmptyNode == [children |-> <<>>, is_value |-> FALSE, value |-> nullptr]

\* node->children_.find(c): the child's address, nullptr if there is none.
ChildOf(h, node, c) == IF c \in DOMAIN h[node].children THEN h[node].children[c] ELSE nullptr

\* The node the walk along key ends at, nullptr if a child is missing.
RECURSIVE TrieWalk(_, _, _)
TrieWalk(h, node, key) ==
  IF node = nullptr THEN nullptr
  ELSE IF key = <<>> THEN node
  ELSE TrieWalk(h, ChildOf(h, node, Head(key)), Tail(key))

\* Trie::Get: the value stored under key in the trie rooted at root_, nullptr if none.
TrieGet(h, root_, key) ==
  LET node == TrieWalk(h, root_, key) IN
  IF node = nullptr THEN nullptr
  ELSE IF ~h[node].is_value THEN nullptr
  ELSE h[node].value

\* A Put loop that writes the new child into the node of the old trie instead of a clone.
RECURSIVE PutLoop_InPlace(_, _, _, _, _, _, _)
PutLoop_InPlace(h, node, next, last_c, first, rest, val) ==
  IF rest = <<>>
  THEN LET leaf == [children |-> IF next # nullptr THEN h[next].children ELSE <<>>,
                    is_value |-> TRUE, value |-> val]
           h1 == Append(h, leaf)
       IN  [h1 EXCEPT ![node].children = MapPut(@, last_c, Len(h1))]
  ELSE LET node1 == IF first THEN node ELSE IF next # nullptr THEN next ELSE Len(h) + 1
           h1 == IF first THEN h
                 ELSE IF next # nullptr THEN h
                 ELSE [Append(h, EmptyNode) EXCEPT ![node].children = MapPut(@, last_c, Len(h) + 1)]
       IN  PutLoop_InPlace(h1, node1, ChildOf(h1, node1, Head(rest)), Head(rest), FALSE, Tail(rest), val)

\* The loop of Trie::Put over the key's characters and the attachment of the leaf:
\* node is the clone being filled, next the old child under the last character.
RECURSIVE PutLoop(_, _, _, _, _, _, _)
PutLoop(h, node, next, last_c, first, rest, val) ==
  IF rest = <<>>
  THEN LET leaf == [children |-> IF next # nullptr THEN h[next].children ELSE <<>>,
                    is_value |-> TRUE, value |-> val]
           h1 == Append(h, leaf)
       IN  [h1 EXCEPT ![node].children = MapPut(@, last_c, Len(h1))]
  ELSE LET ptr == IF next # nullptr THEN h[next] ELSE EmptyNode
           h1 == IF first THEN h
                 ELSE [Append(h, ptr) EXCEPT ![node].children = MapPut(@, last_c, Len(h) + 1)]
           node1 == IF first THEN node ELSE Len(h1)
       IN  PutLoop(h1, node1, ChildOf(h1, node1, Head(rest)), Head(rest), FALSE, Tail(rest), val)

\* Trie::Put: the heap and the root of the new trie.
TriePut(h, root_, key, val) ==
  IF key = <<>>
  THEN [heap |-> Append(h, [children |-> IF root_ = nullptr THEN <<>> ELSE h[root_].children,
                            is_value |-> TRUE, value |-> val]),
        root |-> Len(h) + 1]
  ELSE LET h1 == Append(h, IF root_ # nullptr THEN h[root_] ELSE EmptyNode) IN
       [heap |-> PutLoop(h1, Len(h1), nullptr, " ", TRUE, key, val), root |-> Len(h1)]

\* The first loop of Trie::Remove: pushes the node it stands on, clones the child.
\* found is FALSE when a child is missing.
RECURSIVE RemoveWalk(_, _, _, _)
RemoveWalk(h, node, stack, rest) ==
  IF rest = <<>> THEN [found |-> TRUE, h |-> h, node |-> node, stack |-> stack]
  ELSE LET next == ChildOf(h, node, Head(rest)) IN
       IF next = nullptr THEN [found |-> FALSE, h |-> h, node |-> node, stack |-> Append(stack, node)]
       ELSE RemoveWalk(Append(h, h[next]), Len(h) + 1, Append(stack, node), Tail(rest))

\* A pop loop that stops only at a parent with more than one child.
RECURSIVE PopDeleted_IgnoresValue(_, _)
PopDeleted_IgnoresValue(h, stack) ==
  IF stack = <<>> THEN stack
  ELSE LET node == stack[Len(stack)] IN
       IF Cardinality(DOMAIN h[node].children) > 1 THEN stack
       ELSE PopDeleted_IgnoresValue(h, SubSeq(stack, 1, Len(stack) - 1))

\* A pop loop that never pops: the chain above the deleted leaf stays as it is.
PopDeleted_KeepsChain(h, stack) == stack

\* The while loop popping parents that have no value and at most one child.
RECURSIVE PopDeleted(_, _)
PopDeleted(h, stack) ==
  IF stack = <<>> THEN stack
  ELSE LET node == stack[Len(stack)] IN
       IF h[node].is_value \/ Cardinality(DOMAIN h[node].children) > 1 THEN stack
       ELSE PopDeleted(h, SubSeq(stack, 1, Len(stack) - 1))

\* The last loop of Trie::Remove: the i-th node of the stack gets the (i+1)-th as its
\* child under the key's i-th character; the last node of the stack loses that child.
Relink(h, stack, key) ==
  [id \in DOMAIN h |->
     IF \E i \in 1..Len(key) : i <= Len(stack) /\ stack[i] = id
     THEN LET i == CHOOSE i \in 1..Len(key) : i <= Len(stack) /\ stack[i] = id IN
          IF i = Len(stack)
          THEN [h[id] EXCEPT !.children = MapErase(@, key[i])]
          ELSE [h[id] EXCEPT !.children = MapPut(@, key[i], stack[i + 1])]
     ELSE h[id]]

\* Trie::Remove: the heap and the root of the new trie. Where the code returns the
\* old trie or an empty one, the nodes it allocated are freed with its locals.
TrieRemove(h, root_, key) ==
  IF root_ = nullptr THEN [heap |-> h, root |-> root_]
  ELSE IF key = <<>>
  THEN IF DOMAIN h[root_].children = {} THEN [heap |-> h, root |-> nullptr]
       ELSE [heap |-> Append(h, [EmptyNode EXCEPT !.children = h[root_].children]), root |-> Len(h) + 1]
  ELSE LET h1 == Append(h, h[root_])
           w == RemoveWalk(h1, Len(h1), <<>>, key)
       IN  IF ~w.found THEN [heap |-> h, root |-> root_]
           ELSE IF ~w.h[w.node].is_value THEN [heap |-> h, root |-> root_]
           ELSE LET leaf == DOMAIN w.h[w.node].children = {}
                    h2 == IF leaf THEN w.h
                          ELSE Append(w.h, [EmptyNode EXCEPT !.children = w.h[w.node].children])
                    stack == IF leaf THEN PopDeleted(w.h, w.stack) ELSE Append(w.stack, Len(h2))
                IN  IF stack = <<>> THEN [heap |-> h, root |-> nullptr]
                    ELSE [heap |-> Relink(h2, stack, key), root |-> Len(h1)]

\* The empty trie; roots collects the roots of the tries made so far.
TrieInit == trie = [heap |-> <<>>, root |-> nullptr, roots |-> {nullptr}, n |-> 0]

\* trie = trie.Put(key, val).
T_Put(key, val) ==
  /\ trie.n < MaxTrieOps
  /\ LET t == TriePut(trie.heap, trie.root, key, val) IN
     trie' = [heap |-> t.heap, root |-> t.root, roots |-> trie.roots \cup {t.root}, n |-> trie.n + 1]
  /\ UNCHANGED <<replacer, rop, poolVars, gd, store, tree, iter>>

\* trie = trie.Remove(key).
T_Remove(key) ==
  /\ trie.n < MaxTrieOps
  /\ LET t == TrieRemove(trie.heap, trie.root, key) IN
     trie' = [heap |-> t.heap, root |-> t.root, roots |-> trie.roots \cup {t.root}, n |-> trie.n + 1]
  /\ UNCHANGED <<replacer, rop, poolVars, gd, store, tree, iter>>

InitTrie ==
  /\ replacer = NewReplacer(pool_size, replacer_k)
  /\ rop = NoCall
  /\ PoolInit
  /\ ClientsInit(0)
  /\ TrieInit
  /\ gd = <<>> /\ store = <<>> /\ tree = <<>> /\ iter = <<>>

NextTrie ==
  \/ \E key \in TrieKeys, val \in TrieValues : T_Put(key, val)
  \/ \E key \in TrieKeys : T_Remove(key)

\* Every sequence of up to MaxTrieOps Put / Remove calls from the empty trie.
SpecTrie == InitTrie /\ [][NextTrie]_vars

\* Every lookup in every trie made so far gives the same result after the step.
OldTriesUnchanged ==
  \A r \in trie.roots : \A k \in TrieKeys : TrieGet(trie'.heap, r, k) = TrieGet(trie.heap, r, k)

\* C13: r' = r.Put(k, v) holds v under k and, under every other key, what r holds;
\* every lookup on r (and on every earlier trie) gives the same result as before.
C13_TriePut ==
  [][\A key \in TrieKeys, val \in TrieValues :
       T_Put(key, val)
         => /\ TrieGet(trie'.heap, trie'.root, key) = val
            /\ \A k \in TrieKeys \ {key} :
                 TrieGet(trie'.heap, trie'.root, k) = TrieGet(trie.heap, trie.root, k)
            /\ OldTriesUnchanged]_vars

\* Three puts, of the empty key, of "a" and of "aa": the trie holds a value under a
\* key, under its prefixes and under its extension.
C13_Witness ==
  /\ trie.n = MaxTrieOps
  /\ TrieGet(trie.heap, trie.root, <<>>) = 1
  /\ TrieGet(trie.heap, trie.root, <<"a">>) = 2
  /\ TrieGet(trie.heap, trie.root, <<"a", "a">>) = 1

\* C14: r' = r.Remove(k) holds nothing under k and, under every other key, what r
\* holds; every lookup on r (and on every earlier trie) gives the same result as
\* before; removing an absent key changes no lookup; r'.Remove(k) has the lookups of r'.
C14_TrieRemove ==
  [][\A key \in TrieKeys :
       T_Remove(key)
         => /\ TrieGet(trie'.heap, trie'.root, key) = nullptr
            /\ \A k \in TrieKeys \ {key} :
                 TrieGet(trie'.heap, trie'.root, k) = TrieGet(trie.heap, trie.root, k)
            /\ OldTriesUnchanged
            /\ LET again == TrieRemove(trie'.heap, trie'.root, key) IN
               \A k \in TrieKeys :
                 TrieGet(again.heap, again.root, k) = TrieGet(trie'.heap, trie'.root, k)]_vars

\* "aaa" was removed from a trie that also holds "a": an earlier trie still has "aaa",
\* the current one has "a" only.
C14_Witness ==
  /\ TrieGet(trie.heap, trie.root, <<"a">>) = 1
  /\ \A k \in TrieKeys \ {<<"a">>} : TrieGet(trie.heap, trie.root, k) = nullptr
  /\ \E r \in trie.roots : TrieGet(trie.heap, r, <<"a", "a", "a">>) = 2


\* Every path a trie over TrieKeys can have.
TriePaths == UNION {[1..n -> {"a", "b"}] : n \in 0..3}

\* The keys the trie rooted at root_ holds a value under.
KeysOf(h, root_) == {k \in TrieKeys : TrieGet(h, root_, k) # nullptr}

\* The node at path q of the old trie is also at path q of the new trie, with its
\* value and every child it had except the one under character c.
KeptWithout(q, c) ==
  LET old == trie.heap[TrieWalk(trie.heap, trie.root, q)]
      new == TrieWalk(trie'.heap, trie'.root, q)
  IN  /\ new # nullptr
      /\ trie'.heap[new].is_value = old.is_value /\ trie'.heap[new].value = old.value
      /\ DOMAIN old.children \ {c} \subseteq DOMAIN trie'.heap[new].children

\* C33: in every trie made by Put and Remove calls from the empty trie no node
\* other than the root is without a value and without children; Remove(key) keeps
\* every node above key's node that has a value or a child off key's path, with its
\* value and those children; and removing the only key left gives the null root.
C33_NoDanglingNodes ==
  /\ [](\A r \in trie.roots : \A q \in TriePaths :
          LET node == TrieWalk(trie.heap, r, q) IN
          q # <<>> /\ node # nullptr
            => trie.heap[node].is_value \/ DOMAIN trie.heap[node].children # {})
  /\ [][\A key \in TrieKeys :
          T_Remove(key) /\ key \in KeysOf(trie.heap, trie.root)
            => /\ \A i \in 0..(Len(key) - 1) :
                    LET q == SubSeq(key, 1, i)
                        node == trie.heap[TrieWalk(trie.heap, trie.root, q)]
                    IN  node.is_value \/ DOMAIN node.children \ {key[i + 1]} # {}
                          => KeptWithout(q, key[i + 1])
               /\ (KeysOf(trie.heap, trie.root) = {key} => trie'.root = nullptr)]_vars

\* "aa" was removed from a trie that held the empty key and "aa": the node under "a"
\* was pruned with the leaf, the root kept its value and is now without children.
C33_Witness ==
  /\ trie.n = MaxTrieOps /\ trie.root # nullptr
  /\ KeysOf(trie.heap, trie.root) = {<<>>}
  /\ DOMAIN trie.heap[trie.root].children = {}
  /\ \E r \in trie.roots : KeysOf(trie.heap, r) = {<<>>, <<"a", "a">>}

-----------------------------------------------------------------------------
(* TrieStore (src/primer/trie_store.cpp): Get, Put and Remove called by    *)
(* concurrent threads. Every lock acquisition is a step of its own; the    *)
(* statements a thread runs holding root_lock_ are one step with the       *)
(* unlock; Trie::Get, Trie::Put and Trie::Remove are one step each, run    *)
(* on the heap of trie nodes as it is then.                                *)

\* Get / Put / Remove calls of a run.
MaxStoreOps == 3
StoreKeys == {<<"a">>, <<"a", "a">>}

NoStoreLocals == [op |-> "none", key |-> <<>>, val |-> nullptr, trie |-> nullptr,
                  new_trie |-> nullptr, ret |-> nullptr, first |-> 0, last |-> 0]

\* hist: every value root_ has had, in order; order: the Put / Remove calls in the
\* order they got write_lock_; done: how many of them have returned.
StoreInit ==
  store = [heap |-> <<>>, root_ |-> nullptr, root_lock |-> "free", write_lock |-> "free",
           pc |-> [t \in Threads |-> "idle"], lv |-> [t \in Threads |-> NoStoreLocals],
           hist |-> <<nullptr>>, order |-> <<>>, done |-> 0, n |-> 0]

\* A thread enters Get(key), Put(key, val) or Remove(key).
S_Call(t, op, key, val) ==
  /\ store.pc[t] = "idle" /\ store.n < MaxStoreOps
  /\ store' = [store EXCEPT !.n = @ + 1,
                 !.lv[t] = [NoStoreLocals EXCEPT !.op = op, !.key = key, !.val = val,
                                                 !.first = Len(store.hist)],
                 !.pc[t] = IF op = "get" THEN "root_lock" ELSE "write_lock"]
  /\ UNCHANGED <<replacer, rop, poolVars, gd, trie, tree, iter>>

\* Put / Remove that goes on without write_lock_.
S_WriteLock_NoLock(t) ==
  /\ store.pc[t] = "write_lock"
  /\ store' = [store EXCEPT !.order = Append(@, [op |-> store.lv[t].op, key |-> store.lv[t].key,
                                                 val |-> store.lv[t].val]),
                            !.pc[t] = "root_lock"]
  /\ UNCHANGED <<replacer, rop, poolVars, gd, trie, tree, iter>>

\* const std::lock_guard<std::mutex> lock(write_lock_) of Put / Remove.
S_WriteLock(t) ==
  /\ store.pc[t] = "write_lock" /\ store.write_lock = "free"
  /\ store' = [store EXCEPT !.write_lock = t,
                            !.order = Append(@, [op |-> store.lv[t].op, key |-> store.lv[t].key,
                                                 val |-> store.lv[t].val]),
                            !.pc[t] = "root_lock"]
  /\ UNCHANGED <<replacer, rop, poolVars, gd, trie, tree, iter>>

\* root_lock_.lock(), before reading root_ and before writing it.
S_RootLock(t) ==
  /\ store.pc[t] \in {"root_lock", "publish_lock"} /\ store.root_lock = "free"
  /\ store' = [store EXCEPT !.root_lock = t,
                            !.pc[t] = IF store.pc[t] = "root_lock" THEN "copy" ELSE "publish"]
  /\ UNCHANGED <<replacer, rop, poolVars, gd, trie, tree, iter>>

\* A copy of root_ that leaves root_lock_ locked for the lookup.
S_Copy_KeepsLock(t) ==
  /\ store.pc[t] = "copy"
  /\ store' = [store EXCEPT !.lv[t].trie = store.root_,
                            !.pc[t] = IF store.lv[t].op = "get" THEN "lookup" ELSE "compute"]
  /\ UNCHANGED <<replacer, rop, poolVars, gd, trie, tree, iter>>

\* auto trie = root_; root_lock_.unlock().
S_Copy(t) ==
  /\ store.pc[t] = "copy"
  /\ store' = [store EXCEPT !.lv[t].trie = store.root_, !.root_lock = "free",
                            !.pc[t] = IF store.lv[t].op = "get" THEN "lookup" ELSE "compute"]
  /\ UNCHANGED <<replacer, rop, poolVars, gd, trie, tree, iter>>

\* Get: trie.Get<T>(key) and the return of nullopt or ValueGuard(trie, *val).
S_Lookup(t) ==
  /\ store.pc[t] = "lookup"
  /\ store' = [store EXCEPT !.lv[t].ret = TrieGet(store.heap, store.lv[t].trie, store.lv[t].key),
                            !.lv[t].last = Len(store.hist),
                            !.pc[t] = "idle"]
  /\ UNCHANGED <<replacer, rop, poolVars, gd, trie, tree, iter>>

\* Put / Remove: auto new_trie = trie.Put(key, std::move(value)) / trie.Remove(key).
S_Compute(t) ==
  /\ store.pc[t] = "compute"
  /\ LET l == store.lv[t]
         nt == IF l.op = "put" THEN TriePut(store.heap, l.trie, l.key, l.val)
                               ELSE TrieRemove(store.heap, l.trie, l.key)
     IN  store' = [store EXCEPT !.heap = nt.heap, !.lv[t].new_trie = nt.root,
                                !.pc[t] = "publish_lock"]
  /\ UNCHANGED <<replacer, rop, poolVars, gd, trie, tree, iter>>

\* Put / Remove: root_ = new_trie; root_lock_.unlock(); the return releases write_lock_.
S_Publish(t) ==
  /\ store.pc[t] = "publish"
  /\ store' = [store EXCEPT !.root_ = store.lv[t].new_trie, !.root_lock = "free",
                            !.write_lock = IF @ = t THEN "free" ELSE @,
                            !.hist = Append(@, store.lv[t].new_trie),
                            !.done = @ + 1,
                            !.pc[t] = "idle"]
  /\ UNCHANGED <<replacer, rop, poolVars, gd, trie, tree, iter>>

InitStore ==
  /\ replacer = NewReplacer(pool_size, replacer_k)
  /\ rop = NoCall
  /\ PoolInit
  /\ ClientsInit(0)
  /\ StoreInit
  /\ gd = <<>> /\ trie = <<>> /\ tree = <<>> /\ iter = <<>>

NextStore ==
  \E t \in Threads :
    \/ \E key \in StoreKeys : S_Call(t, "get", key, nullptr)
    \/ \E key \in StoreKeys, val \in TrieValues : S_Call(t, "put", key, val)
    \/ \E key \in StoreKeys : S_Call(t, "remove", key, nullptr)
    \/ S_WriteLock(t) \/ S_RootLock(t) \/ S_Copy(t)
    \/ S_Lookup(t) \/ S_Compute(t) \/ S_Publish(t)

\* Two threads making up to MaxStoreOps calls of the store between them.
SpecStore == InitStore /\ [][NextStore]_vars

\* What a map holds under key k after the Put / Remove calls, applied one after
\* another in this order.
RECURSIVE AfterOps(_, _)
AfterOps(calls, k) ==
  IF calls = <<>> THEN nullptr
  ELSE LET o == calls[Len(calls)] IN
       IF o.key = k THEN o.val
       ELSE AfterOps(SubSeq(calls, 1, Len(calls) - 1), k)

\* C15: Put and Remove take effect one at a time, in the order in which they got
\* write_lock_: at most one call is between getting the lock and returning, and root_
\* holds exactly what the calls that have returned, applied in that order, leave; no
\* completed Put or Remove is lost.
C15_WritersSerialized ==
  /\ Len(store.order) - store.done \in {0, 1}
  /\ \A k \in TrieKeys :
       TrieGet(store.heap, store.root_, k) = AfterOps(SubSeq(store.order, 1, store.done), k)

\* Three writes have returned, two of them by different threads on the same key.
C15_Witness ==
  /\ store.done = MaxStoreOps
  /\ \E i \in 1..Len(store.order) : \E j \in 1..Len(store.order) :
       /\ i < j /\ store.order[i].key = store.order[j].key
       /\ store.order[i].op = "put" /\ store.order[j].op = "put"
       /\ store.order[i].val # store.order[j].val
  /\ store.lv["t1"].op = "put" /\ store.lv["t2"].op = "put"

\* C16: Get(key) returns what one root holds under key, a root that was root_ at some
\* moment between the call's start and its return; a thread in Get never has
\* write_lock_ and does not have root_lock_ while it walks the trie; the value a
\* returned ValueGuard refers to stays what it was, whatever Put / Remove do later.
C16_GetSnapshot ==
  \A t \in Threads :
    store.lv[t].op = "get"
      => /\ store.write_lock # t
         /\ store.pc[t] = "lookup" => store.root_lock # t
         /\ store.pc[t] = "idle"
              => /\ \E j \in store.lv[t].first..store.lv[t].last :
                      /\ store.lv[t].trie = store.hist[j]
                      /\ store.lv[t].ret = TrieGet(store.heap, store.hist[j], store.lv[t].key)
                 /\ store.lv[t].ret = TrieGet(store.heap, store.lv[t].trie, store.lv[t].key)

\* A Get returned a value from a root that was published while the Get was running
\* and has been replaced since by a Put of another value under the same key.
C16_Witness ==
  \E t \in Threads :
    /\ store.lv[t].op = "get" /\ store.pc[t] = "idle"
    /\ store.lv[t].ret = 1
    /\ store.lv[t].first < store.lv[t].last
    /\ store.lv[t].trie # store.hist[store.lv[t].first]
    /\ TrieGet(store.heap, store.root_, store.lv[t].key) = 2

-----------------------------------------------------------------------------
(* The B+ tree (src/storage/index/b_plus_tree.cpp), one thread calling     *)
(* Insert and GetValue. The tree's pages are kept by page id (the header   *)
(* page is page 0, its root_page_id_ is tree.root_page_id); a page's       *)
(* key/value array keeps what was written beyond GetSize(), as the page    *)
(* bytes do.                                                               *)

\* Keys 1..MaxTreeKeys are inserted, in every order.
MaxTreeKeys == 7
TreeKeys == 1..MaxTreeKeys
\* leaf_max_size / internal_max_size of a tree.
TreeSizes == {3, 4}
SlotIds == 0..3

\* LeafPage::Init / InternalPage::Init on a page fresh from NewPage (zeroed bytes).
NewTreePage(is_leaf, max_size) ==
  [is_leaf |-> is_leaf, size |-> 0, max_size |-> max_size,
   slot |-> [i \in SlotIds |-> [k |-> 0, v |-> 0]], next_page_id |-> INVALID_PAGE_ID]

\* BPlusTreePage::GetMinSize.
MinSize(page) == page.max_size \div 2

IsSafeModify(page) == page.size + 1 <= page.max_size

InternalKeyIndex(page, key) ==
  LET less == {i \in 1..(page.size - 1) : key < page.slot[i].k} IN
  IF less # {} THEN (CHOOSE i \in less : \A j \in less : i <= j) - 1
  ELSE IF page.size >= 1 THEN page.size - 1
  ELSE 0

\* LeafKeyIndex: the first slot holding key, -1 if none.
LeafKeyIndex(page, key) ==
  LET eq == {i \in 0..(page.size - 1) : page.slot[i].k = key} IN
  IF eq = {} THEN -1 ELSE CHOOSE i \in eq : \A j \in eq : i <= j

\* MoveLeafChild / MoveInternalChild: size slots, from the highest down, read from
\* array from and written to array to; onto is TRUE when both are the same page.
RECURSIVE MoveChild(_, _, _, _, _, _)
MoveChild(from, fromPos, to, toPos, size, onto) ==
  IF size <= 0 THEN to
  ELSE LET to1 == [to EXCEPT ![toPos] = from[fromPos]] IN
       MoveChild(IF onto THEN to1 ELSE from, fromPos - 1, to1, toPos - 1, size - 1, onto)

\* An insertion that writes slot i without moving the slots from i on up by one.
InsertInto_NoShift(page, i, key, value) ==
  [page EXCEPT !.size = @ + 1, !.slot[i] = [k |-> key, v |-> value]]

\* InsertIntoLeaf / InsertIntoInternal.
InsertInto(page, i, key, value) ==
  LET size == page.size + 1
      moved == MoveChild(page.slot, size - 1 - 1, page.slot, size - 1, size - 1 - i, TRUE)
  IN  [page EXCEPT !.size = size, !.slot = [moved EXCEPT ![i] = [k |-> key, v |-> value]]]

\* A split that always moves one entry to the new page.
SplitPage_MovesOne(page) ==
  LET newSize == 1
      remainSize == page.size - newSize
      page2 == [NewTreePage(page.is_leaf, page.max_size) EXCEPT !.size = newSize]
  IN  [left |-> [page EXCEPT !.size = remainSize],
       right |-> [page2 EXCEPT !.slot = MoveChild(page.slot, page.size - 1, page2.slot,
                                                  newSize - 1, newSize, FALSE)]]

\* SplitLeaf / SplitInternal: the page left behind and the new page.
SplitPage(page) ==
  LET newSize == MinSize(page)
      remainSize == page.size - newSize
      page2 == [NewTreePage(page.is_leaf, page.max_size) EXCEPT !.size = newSize]
  IN  [left |-> [page EXCEPT !.size = remainSize],
       right |-> [page2 EXCEPT !.slot = MoveChild(page.slot, page.size - 1, page2.slot,
                                                  newSize - 1, newSize, FALSE)]]

\* The split of a full page and the insertion of (key, value) at position i into
\* the half it belongs to.
SplitInsert(page, i, key, value) ==
  LET sp == SplitPage(page) IN
  IF i >= sp.left.size
  THEN [left |-> sp.left, right |-> InsertInto(sp.right, i - sp.left.size, key, value)]
  ELSE [left |-> InsertInto(sp.left, i, key, value), right |-> sp.right]

\* The descent of Insert: ctx.write_set_ when the leaf is reached (page ids, the
\* leaf last); a page that is safe releases everything above it.
RECURSIVE Descend(_, _, _, _)
Descend(pgs, pid, key, write_set) ==
  LET page == pgs[pid]
      ws == Append(IF IsSafeModify(page) THEN <<>> ELSE write_set, pid)
  IN  IF page.is_leaf THEN ws
      ELSE Descend(pgs, page.slot[InternalKeyIndex(page, key)].v, key, ws)

\* A leaf search that does not look for the key itself.
LeafPos_NoDupTest(page, key) ==
  LET larger == {i \in 0..(page.size - 1) : key < page.slot[i].k}
      pos == IF larger = {} THEN page.size ELSE CHOOSE i \in larger : \A j \in larger : i <= j
  IN  [dup |-> FALSE, pos |-> pos]

\* The search of the leaf in Insert: dup when the key is met before a larger one;
\* else pos, the slot of the first larger key, or GetSize().
LeafPos(page, key) ==
  LET larger == {i \in 0..(page.size - 1) : key < page.slot[i].k}
      pos == IF larger = {} THEN page.size ELSE CHOOSE i \in larger : \A j \in larger : i <= j
  IN  [dup |-> \E i \in 0..(pos - 1) : page.slot[i].k = key, pos |-> pos]

\* The loop over the write set after a split: (splitKey, pid) goes into the parent,
\* which is split as well when it is full.
RECURSIVE Propagate(_, _, _, _, _)
Propagate(pgs, write_set, splitKey, pid, splited_pid) ==
  IF write_set = <<>>
  THEN [pages |-> pgs, splitKey |-> splitKey, pid |-> pid, splited_pid |-> splited_pid]
  ELSE LET id == write_set[Len(write_set)]
           internal == pgs[id]
           idx == InternalKeyIndex(internal, splitKey) + 1
       IN  IF IsSafeModify(internal)
           THEN [pages |-> [pgs EXCEPT ![id] = InsertInto(internal, idx, splitKey, pid)],
                 splitKey |-> splitKey, pid |-> pid, splited_pid |-> splited_pid]
           ELSE LET sp == SplitInsert(internal, idx, splitKey, pid) IN
                Propagate(Append([pgs EXCEPT ![id] = sp.left], sp.right),
                          SubSeq(write_set, 1, Len(write_set) - 1),
                          sp.right.slot[0].k, Len(pgs) + 1, id)

\* BPlusTree::Insert: the tree after the call and the value returned.
TreeInsert(tr, key, value) ==
  IF tr.root_page_id = INVALID_PAGE_ID
  THEN [tr EXCEPT !.pages = Append(@, InsertInto(NewTreePage(TRUE, tr.leaf_max_size), 0, key, value)),
                  !.root_page_id = Len(tr.pages) + 1, !.ret = TRUE]
  ELSE LET write_set == Descend(tr.pages, tr.root_page_id, key, <<>>)
           leafId == write_set[Len(write_set)]
           leaf == tr.pages[leafId]
           lp == LeafPos(leaf, key)
       IN  IF lp.dup THEN [tr EXCEPT !.ret = FALSE]
           ELSE IF IsSafeModify(leaf)
           THEN [tr EXCEPT !.pages[leafId] = InsertInto(leaf, lp.pos, key, value), !.ret = TRUE]
           ELSE LET sp == SplitInsert(leaf, lp.pos, key, value)
                    up == Propagate(Append([tr.pages EXCEPT ![leafId] = sp.left], sp.right),
                                    SubSeq(write_set, 1, Len(write_set) - 1),
                                    sp.right.slot[0].k, Len(tr.pages) + 1, leafId)
                    root == [NewTreePage(FALSE, tr.internal_max_size) EXCEPT
                               !.size = 2,
                               !.slot[0] = [k |-> 0, v |-> up.splited_pid],
                               !.slot[1] = [k |-> up.splitKey, v |-> up.pid]]
                IN  IF up.splited_pid = tr.root_page_id
                    THEN [tr EXCEPT !.pages = Append(up.pages, root),
                                    !.root_page_id = Len(up.pages) + 1, !.ret = TRUE]
                    ELSE [tr EXCEPT !.pages = up.pages, !.ret = TRUE]

\* BPlusTree::GetValue: found, and the value put into result.
RECURSIVE GetValueFrom(_, _, _)
GetValueFrom(pgs, pid, key) ==
  LET page == pgs[pid] IN
  IF page.is_leaf
  THEN LET idx == LeafKeyIndex(page, key) IN
       IF idx # -1 THEN [found |-> TRUE, value |-> page.slot[idx].v]
       ELSE [found |-> FALSE, value |-> 0]
  ELSE GetValueFrom(pgs, page.slot[InternalKeyIndex(page, key)].v, key)

GetValue(tr, key) ==
  IF tr.root_page_id = INVALID_PAGE_ID THEN [found |-> FALSE, value |-> 0]
  ELSE GetValueFrom(tr.pages, tr.root_page_id, key)

\* The value the caller passes with key: the key itself the first time the key is
\* inserted, another one with every later Insert of the key.
RidFor(tr, key) == IF key \in DOMAIN tr.inserted THEN key + MaxTreeKeys ELSE key

\* Insert(key, RidFor(key)); inserted keeps the value of the first Insert of a key.
B_Insert(key) ==
  /\ tree' = [TreeInsert(tree, key, RidFor(tree, key)) EXCEPT
                !.inserted = IF key \in DOMAIN @ THEN @ ELSE MapPut(@, key, key),
                !.removed = 0]
  /\ UNCHANGED <<replacer, rop, poolVars, gd, trie, store, iter>>

\* BPlusTree::Remove: the body declares a Context and returns.
TreeRemove(tr, key) == tr

\* Remove(key); removed is the key of the call when the last call was a Remove, else 0.
B_Remove(key) ==
  /\ tree' = [TreeRemove(tree, key) EXCEPT !.removed = key]
  /\ UNCHANGED <<replacer, rop, poolVars, gd, trie, store, iter>>

\* An empty tree of any leaf_max_size and internal_max_size.
InitTree ==
  /\ replacer = NewReplacer(pool_size, replacer_k)
  /\ rop = NoCall
  /\ PoolInit
  /\ ClientsInit(0)
  /\ \E lm \in TreeSizes, im \in TreeSizes :
       tree = [pages |-> <<>>, root_page_id |-> INVALID_PAGE_ID, leaf_max_size |-> lm,
               internal_max_size |-> im, ret |-> TRUE, inserted |-> <<>>, removed |-> 0]
  /\ gd = <<>> /\ trie = <<>> /\ store = <<>> /\ iter = <<>>

NextTree == \E key \in TreeKeys : B_Insert(key)

\* Every sequence of Insert calls with keys of TreeKeys.
SpecTree == InitTree /\ [][NextTree]_vars

NextTreeRemove == \E key \in TreeKeys : B_Insert(key) \/ B_Remove(key)

\* Every sequence of Insert and Remove calls with keys of TreeKeys.
SpecTreeRemove == InitTree /\ [][NextTreeRemove]_vars

\* The tree has three levels: a leaf split filled an internal page, which was split,
\* and the root was split after it.
ThreeLevels ==
  /\ tree.root_page_id # INVALID_PAGE_ID
  /\ ~tree.pages[tree.root_page_id].is_leaf
  /\ ~tree.pages[tree.pages[tree.root_page_id].slot[0].v].is_leaf

\* C17: Insert returns true exactly when the key was absent; after every Insert,
\* GetValue finds every key inserted so far with the value of its first Insert, and
\* finds no other key (the keys not inserted yet, 0 and MaxTreeKeys + 1), also after
\* leaf splits, internal splits and root splits.
C17_InsertGetValue ==
  [][\A key \in TreeKeys :
       B_Insert(key)
         => /\ tree'.ret = (key \notin DOMAIN tree.inserted)
            /\ \A q \in 0..(MaxTreeKeys + 1) :
                 GetValue(tree', q) = IF q \in DOMAIN tree'.inserted
                                      THEN [found |-> TRUE, value |-> tree'.inserted[q]]
                                      ELSE [found |-> FALSE, value |-> 0]]_vars

\* Every key has been inserted and the tree has grown to three levels.
C17_Witness ==
  /\ DOMAIN tree.inserted = TreeKeys
  /\ tree.ret
  /\ ThreeLevels

\* C18: an Insert of a key that is in the tree returns false and leaves the tree as
\* it is: root page id, every page's size, keys, values and child pointers; no page
\* is allocated.
C18_DuplicateInsert ==
  [][\A key \in TreeKeys :
       B_Insert(key) /\ key \in DOMAIN tree.inserted
         => /\ ~tree'.ret
            /\ tree'.root_page_id = tree.root_page_id
            /\ tree'.pages = tree.pages]_vars

\* An Insert of a present key has returned false on a tree of three levels.
C18_Witness ==
  /\ ~tree.ret
  /\ ThreeLevels

\* The leaves reached from page pid by following next_page_id, at most fuel of them.
RECURSIVE LeafChain(_, _, _)
LeafChain(pgs, pid, fuel) ==
  IF pid = INVALID_PAGE_ID \/ fuel = 0 THEN <<>>
  ELSE <<pid>> \o LeafChain(pgs, pgs[pid].next_page_id, fuel - 1)

\* Begin(): the leaf reached from the root through ValueAt(0).
RECURSIVE LeftmostLeaf(_, _)
LeftmostLeaf(pgs, pid) ==
  IF pgs[pid].is_leaf THEN pid ELSE LeftmostLeaf(pgs, pgs[pid].slot[0].v)

\* The keys of the leaves of chain, slot by slot, leaf after leaf.
RECURSIVE ChainKeys(_, _)
ChainKeys(pgs, chain) ==
  IF chain = <<>> THEN <<>>
  ELSE [i \in 1..pgs[chain[1]].size |-> pgs[chain[1]].slot[i - 1].k] \o ChainKeys(pgs, Tail(chain))

\* C19: after every Insert the chain of next_page_id from the leftmost leaf visits
\* every leaf once, ends at INVALID_PAGE_ID, and its keys are strictly increasing and
\* are exactly the keys inserted.
C19_LeafChain ==
  tree.root_page_id # INVALID_PAGE_ID
    => LET chain == LeafChain(tree.pages, LeftmostLeaf(tree.pages, tree.root_page_id), Len(tree.pages) + 1)
           keys == ChainKeys(tree.pages, chain)
       IN  /\ Len(chain) <= Len(tree.pages)
           /\ {chain[i] : i \in 1..Len(chain)} = {id \in 1..Len(tree.pages) : tree.pages[id].is_leaf}
           /\ \A i \in 1..Len(keys), j \in 1..Len(keys) : i < j => keys[i] < keys[j]
           /\ {keys[i] : i \in 1..Len(keys)} = DOMAIN tree.inserted

\* The size of page is between its minimum and its maximum.
SizeInBounds(page) == MinSize(page) <= page.size /\ page.size <= page.max_size

\* C27: after every Insert every page but the root has between max_size / 2 and
\* max_size entries and the root has at most max_size; the two halves of a full leaf
\* or internal page, split with the new entry placed at any position, are within
\* the same bounds.
C27_SizeBounds ==
  \A id \in 1..Len(tree.pages) :
    LET page == tree.pages[id] IN
    /\ page.size <= page.max_size
    /\ id # tree.root_page_id => SizeInBounds(page)
    /\ ~IsSafeModify(page) =>
         \A i \in (IF page.is_leaf THEN 0 ELSE 1)..page.size :
           LET sp == SplitInsert(page, i, 0, 0) IN
           /\ SizeInBounds(sp.left) /\ SizeInBounds(sp.right)
           /\ sp.left.size + sp.right.size = page.size + 1

\* A tree of three levels has a leaf and an internal page, neither the root, at
\* their minimum, and a leaf that is full.
C27_Witness ==
  /\ ThreeLevels
  /\ \E a, b, c \in 1..Len(tree.pages) \ {tree.root_page_id} :
       /\ tree.pages[a].is_leaf /\ tree.pages[a].size = MinSize(tree.pages[a])
       /\ ~tree.pages[b].is_leaf /\ tree.pages[b].size = MinSize(tree.pages[b])
       /\ tree.pages[c].is_leaf /\ tree.pages[c].size = tree.pages[c].max_size

\* C21: after Remove(k) of a key the tree holds, GetValue(k) finds nothing, every
\* other key keeps its value, and an Insert of k would return true.
C21_RemoveDeletes ==
  tree.removed \in DOMAIN tree.inserted
    => /\ ~GetValue(tree, tree.removed).found
       /\ \A q \in DOMAIN tree.inserted \ {tree.removed} :
            GetValue(tree, q) = [found |-> TRUE, value |-> tree.inserted[q]]
       /\ TreeInsert(tree, tree.removed, tree.removed).ret

-----------------------------------------------------------------------------
(* IndexIterator (src/storage/index/index_iterator.cpp) walking a chain of *)
(* leaf pages: leaf i is page i, its next_page_id is i + 1, the last       *)
(* leaf's is INVALID_PAGE_ID. The iterator starts as Begin() or Begin(key) *)
(* returns it: a read guard on a leaf p, pos_ the index of a slot of p.    *)

\* Leaves of the chain and slots of a leaf.
MaxLeaves == 3
MaxLeafSize == 3

\* iter.page is guard_'s page (nullptr: the empty guard, PageId() INVALID_PAGE_ID);
\* pin and rlatch are the pool's pin count and the read latches of every leaf.
InitIter ==
  /\ replacer = NewReplacer(pool_size, replacer_k)
  /\ rop = NoCall
  /\ PoolInit
  /\ ClientsInit(0)
  /\ \E n \in 1..MaxLeaves : \E sizes \in [1..n -> 1..MaxLeafSize] :
     \E p \in 1..n : \E idx \in 0..(sizes[p] - 1) :
       iter = [leaf |-> [i \in 1..n |-> [size |-> sizes[i],
                                         next_page_id |-> IF i < n THEN i + 1 ELSE INVALID_PAGE_ID]],
               page |-> p, pos |-> idx,
               pin |-> [i \in 1..n |-> IF i = p THEN 1 ELSE 0],
               rlatch |-> [i \in 1..n |-> IF i = p THEN 1 ELSE 0]]
  /\ gd = <<>> /\ trie = <<>> /\ store = <<>> /\ tree = <<>>

\* operator++ on an iterator that is not at the end. Past the last slot of a leaf
\* with a next leaf, FetchPageRead's guard initialises a local variable named guard_:
\* the page is pinned and latched, and unlatched and unpinned when the local goes
\* out of scope at the return; the member guard_ is not assigned.
I_Increment ==
  /\ iter.page # nullptr
  /\ LET pos == iter.pos + 1
         leaf == iter.leaf[iter.page]
         next == leaf.next_page_id
     IN  IF pos < leaf.size THEN iter' = [iter EXCEPT !.pos = pos]
         ELSE IF next = INVALID_PAGE_ID
         THEN iter' = [iter EXCEPT !.pos = 0, !.page = nullptr,
                                   !.rlatch[iter.page] = @ - 1, !.pin[iter.page] = @ - 1]
         ELSE LET local == [iter EXCEPT !.pos = 0, !.pin[next] = @ + 1, !.rlatch[next] = @ + 1]
              IN  iter' = [local EXCEPT !.rlatch[next] = @ - 1, !.pin[next] = @ - 1]
  /\ UNCHANGED <<replacer, rop, poolVars, gd, trie, store, tree>>

NextIter == I_Increment

\* ++ is applied as long as the iterator is not equal to end().
SpecIter == InitIter /\ [][NextIter]_vars /\ WF_vars(NextIter)

\* C20: ++ moves the iterator to the next slot of its leaf; past the last slot of a
\* leaf whose next_page_id is valid it holds a read guard on the next leaf, at
\* position 0, and no guard on the previous leaf; past the last slot of a leaf whose
\* next_page_id is INVALID_PAGE_ID it is equal to end() (empty guard, position 0);
\* repeated ++ from begin() reaches end().
C20_IteratorAdvance ==
  /\ [][I_Increment
          => LET leaf == iter.leaf[iter.page] IN
             IF iter.pos + 1 < leaf.size
             THEN iter'.page = iter.page /\ iter'.pos = iter.pos + 1
             ELSE IF leaf.next_page_id # INVALID_PAGE_ID
             THEN /\ iter'.page = leaf.next_page_id /\ iter'.pos = 0
                  /\ iter'.rlatch[leaf.next_page_id] = 1 /\ iter'.pin[leaf.next_page_id] = 1
                  /\ iter'.rlatch[iter.page] = 0 /\ iter'.pin[iter.page] = 0
             ELSE iter'.page = nullptr /\ iter'.pos = 0]_vars
  /\ <>(iter.page = nullptr)

-----------------------------------------------------------------------------
(* The B+ tree's latching (b_plus_tree.cpp, index_iterator.cpp): Threads   *)
(* calling Insert, GetValue, IsEmpty, GetRootPageId, Begin() and           *)
(* Begin(key), and ++ on the                                               *)
(* iterator a Begin gave them, on one tree. A step runs from one page      *)
(* latch request to the next; a thread holds the latch of a page while it  *)
(* has a ReadPageGuard or WritePageGuard of it. The header page is page 0. *)
(* The pool has a frame for every page.                                    *)

\* The tree starts as Insert builds it from the keys 2, 4, .., 2 * n, n <= MaxPrefill,
\* and a thread may start with an iterator that an earlier Begin gave it.
MaxPrefill == 7
\* Calls of Insert, GetValue and Begin in a run.
MaxLatchOps == 2
\* Keys of the calls: one inside the tree once it has three keys, one above every key.
LatchKeys == {6, 15}

RECURSIVE Prefilled(_, _, _)
Prefilled(n, lm, im) ==
  IF n = 0
  THEN [pages |-> <<>>, root_page_id |-> INVALID_PAGE_ID, leaf_max_size |-> lm,
        internal_max_size |-> im, ret |-> TRUE, inserted |-> <<>>, removed |-> 0]
  ELSE TreeInsert(Prefilled(n - 1, lm, im), 2 * n, 2 * n)

\* The locals of a thread that is in no call: its guards are empty.
NoTreeCall ==
  [op |-> "none", key |-> 0, hdr |-> "none", write_set |-> <<>>, root |-> nullptr,
   next |-> nullptr, parent |-> nullptr, tmp |-> nullptr,
   splitKey |-> 0, pid |-> nullptr, splited_pid |-> nullptr, root_page_id |-> INVALID_PAGE_ID]

\* IndexIterator(): the end iterator.
EndIterator == [page |-> nullptr, pos |-> 0]

\* held[t] is the ledger of t's pins: for each page, the FetchPage* / NewPageGuarded
\* calls of t that pinned it less the UnpinPage calls t's guards made for it.
Pins(h, p) == IF p \in DOMAIN h THEN h[p] ELSE 0
SetPins(h, p, c) == IF c = 0 THEN MapErase(h, p) ELSE MapPut(h, p, c)

\* A FetchPageRead / FetchPageWrite / NewPageGuarded of page p returned.
PinPage(h, p) == SetPins(h, p, Pins(h, p) + 1)

\* The guards of the pages ps are dropped, destroyed or move-assigned over, in turn.
RECURSIVE UnpinPages(_, _)
UnpinPages(h, ps) ==
  IF ps = <<>> THEN h
  ELSE UnpinPages(SetPins(h, Head(ps), Pins(h, Head(ps)) - 1), Tail(ps))

\* The guard of page p, an empty guard if p is nullptr.
GuardOf(p) == IF p = nullptr THEN <<>> ELSE <<p>>

\* A return that destroys every guard but the header's.
ReleaseLocals_KeepsHeader(h, l) ==
  UnpinPages(h, l.write_set \o GuardOf(l.root) \o GuardOf(l.parent) \o GuardOf(l.tmp))

\* A return: the destructors of the call's locals run, each guard that holds a page
\* unpins it.
ReleaseLocals(h, l) ==
  UnpinPages(h, (IF l.hdr = "none" THEN <<>> ELSE <<0>>) \o l.write_set
                  \o GuardOf(l.root) \o GuardOf(l.parent) \o GuardOf(l.tmp))

\* Pages whose write latch t holds: ctx.header_page_, ctx.write_set_ and root.
WHeld(t) ==
  (IF lv[t].hdr = "w" THEN {0} ELSE {}) \cup Range(lv[t].write_set) \cup ({lv[t].root} \ {nullptr})

\* Pages whose read latch the call t is in holds: guard, parent and tmp.
RDescent(t) ==
  (IF lv[t].hdr = "r" THEN {0} ELSE {}) \cup ({lv[t].parent, lv[t].tmp} \ {nullptr})

\* Pages whose read latch t holds: those of its call and that of its iterator.
RHeld(t) == RDescent(t) \cup ({iter[t].page} \ {nullptr})

\* Page::WLatch / RLatch return at once.
CanW(p) == \A u \in Threads : p \notin WHeld(u) \cup RHeld(u)
CanR(p) == \A u \in Threads : p \notin WHeld(u)

\* Lines 212-225: the new root when the page split last was the root.
NewRoot(tr, l) ==
  IF l.splited_pid = l.root_page_id
  THEN [tr EXCEPT !.pages = Append(@, [NewTreePage(FALSE, tr.internal_max_size) EXCEPT
                                         !.size = 2,
                                         !.slot[0] = [k |-> 0, v |-> l.splited_pid],
                                         !.slot[1] = [k |-> l.splitKey, v |-> l.pid]]),
                  !.root_page_id = Len(tr.pages) + 1, !.ret = TRUE]
  ELSE [tr EXCEPT !.ret = TRUE]

\* Lines 212-223: the guard NewPageGuarded gives for the new root, and its Drop().
NewRootPins(h, tr, l) ==
  IF l.splited_pid = l.root_page_id
  THEN UnpinPages(PinPage(h, Len(tr.pages) + 1), <<Len(tr.pages) + 1>>)
  ELSE h

\* Insert, lines 88-105: the header's write latch, and the whole call on an empty tree.
IN_Header(t, key) ==
  /\ pc[t] = "idle" /\ ops > 0
  /\ CanW(0)
  /\ ops' = ops - 1
  /\ IF tree.root_page_id = INVALID_PAGE_ID
     THEN /\ tree' = TreeInsert(tree, key, key)
          /\ held' = [held EXCEPT ![t] =
                        UnpinPages(PinPage(PinPage(@, 0), Len(tree.pages) + 1),
                                   <<Len(tree.pages) + 1, 0>>)]
          /\ UNCHANGED <<pc, lv>>
     ELSE /\ lv' = [lv EXCEPT ![t] = [NoTreeCall EXCEPT !.op = "insert", !.key = key, !.hdr = "w",
                                                       !.root_page_id = tree.root_page_id,
                                                       !.next = tree.root_page_id]]
          /\ pc' = [pc EXCEPT ![t] = "in_fetch"]
          /\ held' = [held EXCEPT ![t] = PinPage(@, 0)]
          /\ UNCHANGED tree
  /\ UNCHANGED <<replacer, rop, pages, page_table, free_list, next_page_id, disk,
                 committed, gd, trie, store, iter>>

\* The descent as it would be if every page counted as safe.
IN_Fetch_ReleasesAll(t) ==
  /\ pc[t] = "in_fetch"
  /\ CanW(lv[t].next)
  /\ LET id == lv[t].next
         page == tree.pages[id]
     IN  /\ lv' = [lv EXCEPT ![t].hdr = "none",
                             ![t].write_set = <<id>>,
                             ![t].splited_pid = id,
                             ![t].next = IF page.is_leaf THEN nullptr
                                         ELSE page.slot[InternalKeyIndex(page, lv[t].key)].v]
         /\ pc' = [pc EXCEPT ![t] = IF page.is_leaf THEN "in_leaf" ELSE "in_fetch"]
         /\ held' = [held EXCEPT ![t] =
                       UnpinPages(PinPage(@, id),
                                  (IF lv[t].hdr = "w" THEN <<0>> ELSE <<>>) \o lv[t].write_set)]
  /\ UNCHANGED <<replacer, rop, pages, page_table, free_list, next_page_id, disk,
                 committed, ops, gd, trie, store, tree, iter>>

\* Lines 106-138: FetchPageWrite of the root or of the child, and the loop body up to
\* the next FetchPageWrite.
IN_Fetch(t) ==
  /\ pc[t] = "in_fetch"
  /\ CanW(lv[t].next)
  /\ LET id == lv[t].next
         page == tree.pages[id]
         safe == IsSafeModify(page)
     IN  /\ lv' = [lv EXCEPT ![t].hdr = IF safe THEN "none" ELSE @,
                             ![t].write_set = Append(IF safe THEN <<>> ELSE @, id),
                             ![t].splited_pid = id,
                             ![t].next = IF page.is_leaf THEN nullptr
                                         ELSE page.slot[InternalKeyIndex(page, lv[t].key)].v]
         /\ pc' = [pc EXCEPT ![t] = IF page.is_leaf THEN "in_leaf" ELSE "in_fetch"]
         /\ held' = [held EXCEPT ![t] =
                       UnpinPages(PinPage(@, id),
                                  IF safe THEN (IF lv[t].hdr = "w" THEN <<0>> ELSE <<>>)
                                                 \o lv[t].write_set
                                  ELSE <<>>)]
  /\ UNCHANGED <<replacer, rop, pages, page_table, free_list, next_page_id, disk,
                 committed, ops, gd, trie, store, tree, iter>>

\* Lines 140-183: the search of the leaf, the insertion, and the split of a full leaf.
IN_Leaf(t) ==
  /\ pc[t] = "in_leaf"
  /\ LET ws == lv[t].write_set
         id == ws[Len(ws)]
         leaf == tree.pages[id]
         lp == LeafPos(leaf, lv[t].key)
     IN  IF lp.dup
         THEN /\ tree' = [tree EXCEPT !.ret = FALSE]
              /\ lv' = [lv EXCEPT ![t] = NoTreeCall]
              /\ pc' = [pc EXCEPT ![t] = "idle"]
              /\ held' = [held EXCEPT ![t] = ReleaseLocals(@, lv[t])]
         ELSE IF IsSafeModify(leaf)
         THEN /\ tree' = [tree EXCEPT !.pages[id] = InsertInto(leaf, lp.pos, lv[t].key, lv[t].key),
                                      !.ret = TRUE]
              /\ lv' = [lv EXCEPT ![t] = NoTreeCall]
              /\ pc' = [pc EXCEPT ![t] = "idle"]
              /\ held' = [held EXCEPT ![t] = ReleaseLocals(@, lv[t])]
         ELSE LET sp == SplitInsert(leaf, lp.pos, lv[t].key, lv[t].key)
                  pid == Len(tree.pages) + 1
              IN
              /\ tree' = [tree EXCEPT !.pages = Append([@ EXCEPT ![id] = sp.left], sp.right)]
              /\ lv' = [lv EXCEPT ![t].splitKey = sp.right.slot[0].k,
                                  ![t].pid = pid,
                                  ![t].write_set = SubSeq(ws, 1, Len(ws) - 1)]
              /\ pc' = [pc EXCEPT ![t] = "in_up"]
              \* SplitLeaf's guard, FetchPageWrite(pid), pop_back(), guard.Drop()
              /\ held' = [held EXCEPT ![t] =
                            UnpinPages(PinPage(UnpinPages(PinPage(@, pid), <<pid>>), pid),
                                       <<id, pid>>)]
  /\ UNCHANGED <<replacer, rop, pages, page_table, free_list, next_page_id, disk,
                 committed, ops, gd, trie, store, iter>>

\* Lines 185-225: one turn of the loop over the write set, or the end of the call.
IN_Up(t) ==
  /\ pc[t] = "in_up"
  /\ LET ws == lv[t].write_set IN
     IF ws = <<>>
     THEN /\ tree' = NewRoot(tree, lv[t])
          /\ lv' = [lv EXCEPT ![t] = NoTreeCall]
          /\ pc' = [pc EXCEPT ![t] = "idle"]
          /\ held' = [held EXCEPT ![t] = ReleaseLocals(NewRootPins(@, tree, lv[t]), lv[t])]
     ELSE LET id == ws[Len(ws)]
              internal == tree.pages[id]
              idx == InternalKeyIndex(internal, lv[t].splitKey) + 1
              \* root = std::move(ctx.write_set_.back()): root lets go of its page and takes
              \* the back's; the back stays in the write set as an empty guard
              moved == [lv[t] EXCEPT !.root = id, !.write_set = SubSeq(ws, 1, Len(ws) - 1)]
              h1 == UnpinPages(held[t], GuardOf(lv[t].root))
          IN  IF IsSafeModify(internal)
              THEN /\ tree' = NewRoot([tree EXCEPT !.pages[id] =
                                         InsertInto(internal, idx, lv[t].splitKey, lv[t].pid)],
                                      lv[t])
                   /\ lv' = [lv EXCEPT ![t] = NoTreeCall]
                   /\ pc' = [pc EXCEPT ![t] = "idle"]
                   /\ held' = [held EXCEPT ![t] =
                                 ReleaseLocals(NewRootPins(h1, tree, lv[t]), moved)]
              ELSE LET sp == SplitInsert(internal, idx, lv[t].splitKey, lv[t].pid)
                       pid2 == Len(tree.pages) + 1
                   IN
                   /\ tree' = [tree EXCEPT !.pages = Append([@ EXCEPT ![id] = sp.left], sp.right)]
                   /\ lv' = [lv EXCEPT ![t].root = id,
                                       ![t].splited_pid = id,
                                       ![t].splitKey = sp.right.slot[0].k,
                                       ![t].pid = pid2,
                                       ![t].write_set = SubSeq(ws, 1, Len(ws) - 1)]
                   \* SplitInternal's guard, guard = FetchPageWrite(pid2), guard.Drop()
                   /\ held' = [held EXCEPT ![t] =
                                 UnpinPages(PinPage(UnpinPages(PinPage(h1, pid2), <<pid2>>), pid2),
                                            <<pid2>>)]
                   /\ UNCHANGED pc
  /\ UNCHANGED <<replacer, rop, pages, page_table, free_list, next_page_id, disk,
                 committed, ops, gd, trie, store, iter>>

\* The calls that go down with read latches: GetValue(key), Begin(), Begin(key).
ReadOps == {"GetValue", "Begin", "BeginKey"}

\* GetValue lines 44-49, Begin lines 255-260 and 289-294: the header's read latch,
\* and the whole call on an empty tree. A thread has one iterator at a time.
RD_Header(t, op, key) ==
  /\ pc[t] = "idle" /\ ops > 0
  /\ op # "GetValue" => iter[t] = EndIterator
  /\ CanR(0)
  /\ ops' = ops - 1
  /\ IF tree.root_page_id = INVALID_PAGE_ID
     THEN /\ held' = [held EXCEPT ![t] = UnpinPages(PinPage(@, 0), <<0>>)]
          /\ UNCHANGED <<pc, lv>>
     ELSE /\ lv' = [lv EXCEPT ![t] = [NoTreeCall EXCEPT !.op = op, !.key = key, !.hdr = "r",
                                                       !.next = tree.root_page_id]]
          /\ pc' = [pc EXCEPT ![t] = "rd_fetch"]
          /\ held' = [held EXCEPT ![t] = PinPage(@, 0)]
  /\ UNCHANGED <<replacer, rop, pages, page_table, free_list, next_page_id, disk,
                 committed, gd, trie, store, tree, iter>>

\* The read descent as it would be with the latches above released before the fetch.
RD_Fetch_DropsFirst(t) ==
  /\ pc[t] = "rd_fetch"
  /\ CanR(lv[t].next)
  /\ lv' = [lv EXCEPT ![t].tmp = lv[t].next, ![t].next = nullptr,
                      ![t].hdr = "none", ![t].parent = nullptr]
  /\ pc' = [pc EXCEPT ![t] = "rd_release"]
  /\ held' = [held EXCEPT ![t] =
                PinPage(UnpinPages(@, (IF lv[t].hdr = "r" THEN <<0>> ELSE <<>>)
                                        \o GuardOf(lv[t].parent)),
                        lv[t].next)]
  /\ UNCHANGED <<replacer, rop, pages, page_table, free_list, next_page_id, disk,
                 committed, ops, gd, trie, store, tree, iter>>

\* FetchPageRead of the root (parent) or of the child (tmp).
RD_Fetch(t) ==
  /\ pc[t] = "rd_fetch"
  /\ CanR(lv[t].next)
  /\ lv' = [lv EXCEPT ![t].tmp = lv[t].next, ![t].next = nullptr]
  /\ pc' = [pc EXCEPT ![t] = "rd_release"]
  /\ held' = [held EXCEPT ![t] = PinPage(@, lv[t].next)]
  /\ UNCHANGED <<replacer, rop, pages, page_table, free_list, next_page_id, disk,
                 committed, ops, gd, trie, store, tree, iter>>

\* guard.Drop() or parent = std::move(tmp), and the loop body up to the next
\* FetchPageRead or to the return.
RD_Release(t) ==
  /\ pc[t] = "rd_release"
  /\ LET id == lv[t].tmp
         page == tree.pages[id]
         idx == LeafKeyIndex(page, lv[t].key)
         \* guard.Drop() after the fetch of the root, parent = std::move(tmp) after a child's
         h1 == UnpinPages(held[t], (IF lv[t].hdr = "r" THEN <<0>> ELSE <<>>)
                                     \o GuardOf(lv[t].parent))
         moved == [lv[t] EXCEPT !.hdr = "none", !.parent = id, !.tmp = nullptr]
         given == lv[t].op = "Begin" \/ (lv[t].op = "BeginKey" /\ idx # -1)
     IN  IF page.is_leaf
         THEN /\ iter' = [iter EXCEPT ![t] =
                            IF lv[t].op = "Begin" THEN [page |-> id, pos |-> 0]
                            ELSE IF lv[t].op = "BeginKey" /\ idx # -1 THEN [page |-> id, pos |-> idx]
                            ELSE @]
              /\ lv' = [lv EXCEPT ![t] = NoTreeCall]
              /\ pc' = [pc EXCEPT ![t] = "idle"]
              \* the iterator takes parent's page with std::move(parent)
              /\ held' = [held EXCEPT ![t] =
                            ReleaseLocals(h1, IF given THEN [moved EXCEPT !.parent = nullptr]
                                              ELSE moved)]
         ELSE /\ lv' = [lv EXCEPT ![t].hdr = "none", ![t].parent = id, ![t].tmp = nullptr,
                                  ![t].next = IF lv[t].op = "Begin" THEN page.slot[0].v
                                              ELSE page.slot[InternalKeyIndex(page, lv[t].key)].v]
              /\ pc' = [pc EXCEPT ![t] = "rd_fetch"]
              /\ held' = [held EXCEPT ![t] = h1]
              /\ UNCHANGED iter
  /\ UNCHANGED <<replacer, rop, pages, page_table, free_list, next_page_id, disk,
                 committed, ops, gd, trie, store, tree>>

\* The calls that read the header page only.
HeaderOps == {"IsEmpty", "GetRootPageId"}

\* IsEmpty line 30, GetRootPageId line 335: FetchPageRead of the header page.
HD_Fetch(t, op) ==
  /\ pc[t] = "idle" /\ ops > 0
  /\ CanR(0)
  /\ ops' = ops - 1
  /\ lv' = [lv EXCEPT ![t] = [NoTreeCall EXCEPT !.op = op, !.hdr = "r"]]
  /\ pc' = [pc EXCEPT ![t] = "hd_return"]
  /\ held' = [held EXCEPT ![t] = PinPage(@, 0)]
  /\ UNCHANGED <<replacer, rop, pages, page_table, free_list, next_page_id, disk,
                 committed, gd, trie, store, tree, iter>>

\* IsEmpty lines 31-32, GetRootPageId lines 336-337: the read of root_page_id_ and the
\* return.
HD_Return(t) ==
  /\ pc[t] = "hd_return"
  /\ lv' = [lv EXCEPT ![t] = NoTreeCall]
  /\ pc' = [pc EXCEPT ![t] = "idle"]
  /\ held' = [held EXCEPT ![t] = ReleaseLocals(@, lv[t])]
  /\ UNCHANGED <<replacer, rop, pages, page_table, free_list, next_page_id, disk,
                 committed, ops, gd, trie, store, tree, iter>>

\* operator++ on the iterator of t (index_iterator.cpp lines 43-57); the guard of
\* the next leaf is a local of the call.
IT_Increment(t) ==
  /\ pc[t] = "idle"
  /\ iter[t] # EndIterator
  /\ LET pos == iter[t].pos + 1
         leaf == tree.pages[iter[t].page]
     IN  IF pos < leaf.size THEN iter' = [iter EXCEPT ![t].pos = pos] /\ held' = held
         ELSE IF leaf.next_page_id = INVALID_PAGE_ID
         THEN /\ iter' = [iter EXCEPT ![t] = EndIterator]
              /\ held' = [held EXCEPT ![t] = UnpinPages(@, <<iter[t].page>>)]
         ELSE /\ CanR(leaf.next_page_id)
              /\ iter' = [iter EXCEPT ![t].pos = 0]
              /\ held' = [held EXCEPT ![t] =
                            UnpinPages(PinPage(@, leaf.next_page_id), <<leaf.next_page_id>>)]
  /\ UNCHANGED <<replacer, rop, pages, page_table, free_list, next_page_id, disk, pc, lv,
                 committed, ops, gd, trie, store, tree>>

InitLatch ==
  /\ replacer = NewReplacer(pool_size, replacer_k)
  /\ rop = NoCall
  /\ PoolInit
  /\ pc = [t \in Threads |-> "idle"]
  /\ lv = [t \in Threads |-> NoTreeCall]
  /\ committed = [p \in PageIds |-> 0]
  /\ ops = MaxLatchOps
  /\ \E n \in 0..MaxPrefill, m \in TreeSizes : tree = Prefilled(n, m, m)
  /\ iter \in [Threads -> {EndIterator} \cup
                           {[page |-> id, pos |-> i] : id \in 1..Len(tree.pages), i \in SlotIds}]
  /\ \A t \in Threads :
       iter[t] # EndIterator =>
         tree.pages[iter[t].page].is_leaf /\ iter[t].pos < tree.pages[iter[t].page].size
  /\ held = [t \in Threads |-> IF iter[t] = EndIterator THEN <<>>
                                 ELSE PinPage(<<>>, iter[t].page)]
  /\ gd = <<>> /\ trie = <<>> /\ store = <<>>

\* The steps of a call that has begun, and ++.
LatchStep(t) ==
  \/ IN_Fetch(t) \/ IN_Leaf(t) \/ IN_Up(t)
  \/ RD_Fetch(t) \/ RD_Release(t)
  \/ HD_Return(t)
  \/ IT_Increment(t)

NextLatch ==
  \E t \in Threads :
    \/ \E key \in LatchKeys : IN_Header(t, key)
    \/ \E op \in ReadOps, key \in LatchKeys : RD_Header(t, op, key)
    \/ \E op \in HeaderOps : HD_Fetch(t, op)
    \/ LatchStep(t)

SpecLatch == InitLatch /\ [][NextLatch]_vars

\* A thread that is at a latch request gets the latch once it stays free, and the
\* statements between two requests are run.
SpecLatchFair == SpecLatch /\ \A t \in Threads : WF_vars(LatchStep(t))

\* The threads, other than t, whose latch keeps t from the latch it requests.
Blockers(t) ==
  IF pc[t] = "in_fetch"
  THEN {u \in Threads \ {t} : lv[t].next \in WHeld(u) \cup RHeld(u)}
  ELSE IF pc[t] = "rd_fetch"
  THEN {u \in Threads \ {t} : lv[t].next \in WHeld(u)}
  ELSE {}

\* A set of threads each of which waits for a page latch that another one of them holds.
Deadlocked ==
  \E S \in SUBSET Threads : S # {} /\ \A t \in S : Blockers(t) \cap S # {}

\* C22: no set of threads running Insert, GetValue, Begin and ++ is ever such that
\* each waits for a page latch another of them holds, and every call that has begun
\* returns.
C22_NoDeadlock ==
  /\ [](~Deadlocked)
  /\ \A t \in Threads : (pc[t] # "idle") ~> (pc[t] = "idle")

\* The pages from page pid down to the leaf that key belongs to.
RECURSIVE PathTo(_, _, _)
PathTo(pgs, pid, key) ==
  IF pgs[pid].is_leaf THEN <<pid>>
  ELSE <<pid>> \o PathTo(pgs, pgs[pid].slot[InternalKeyIndex(pgs[pid], key)].v, key)

\* The pages a step changes; page 0 when it changes the header's root_page_id_.
Modified ==
  {id \in 1..Len(tree.pages) : tree'.pages[id] # tree.pages[id]}
    \cup (IF tree'.root_page_id # tree.root_page_id THEN {0} ELSE {})

\* C25: when Insert reaches the leaf, it holds the write latches of the pages from
\* the deepest insert-safe page of the path down to the leaf, and no other; with no
\* safe page on the path it holds those of the whole path and of the header. The
\* steps after the descent take no further latch of a page of the tree, and change
\* the leaf, the ancestors and the header's root_page_id_ only under those latches.
C25_WriteLatchesCover ==
  /\ [](\A t \in Threads :
          pc[t] = "in_leaf" =>
            LET path == PathTo(tree.pages, tree.root_page_id, lv[t].key)
                safe == {i \in 1..Len(path) : IsSafeModify(tree.pages[path[i]])}
            IN  IF safe = {}
                THEN WHeld(t) = {0} \cup Range(path)
                ELSE WHeld(t) = {path[i] : i \in {j \in 1..Len(path) : \A k \in safe : j >= k}})
  /\ [][\A t \in Threads :
          (IN_Leaf(t) \/ IN_Up(t)) =>
            /\ Modified \subseteq WHeld(t)
            /\ WHeld(t)' \subseteq WHeld(t)]_vars

\* An Insert has split a full leaf under a full root and is about to split the root,
\* holding the header's latch and the root's.
C25_Witness ==
  \E t \in Threads :
    /\ pc[t] = "in_up"
    /\ lv[t].hdr = "w" /\ Len(lv[t].write_set) = 1
    /\ lv[t].write_set[1] = tree.root_page_id
    /\ ~IsSafeModify(tree.pages[tree.root_page_id])

\* The pages that the internal page pid points to.
ChildrenOf(pid) == {tree.pages[pid].slot[i].v : i \in 0..(tree.pages[pid].size - 1)}

\* C26: in the descent of GetValue and Begin the header's read latch is released
\* only when the root's is held, and the read latch of an internal page only when
\* that of one of its children is held; the call holds one read latch when it
\* requests the next, and never more than two.
C26_ReadCrabbing ==
  /\ [](\A t \in Threads :
          /\ Cardinality(RDescent(t)) <= 2
          /\ pc[t] = "rd_fetch" => Cardinality(RDescent(t)) = 1
          /\ pc[t] = "rd_release" => Cardinality(RDescent(t)) = 2)
  /\ [][\A t \in Threads :
          lv[t].op \in ReadOps =>
            \A p \in RDescent(t) \ RDescent(t)' :
              IF p = 0 THEN tree.root_page_id \in RDescent(t)
              ELSE ~tree.pages[p].is_leaf => ChildrenOf(p) \cap RDescent(t) # {}]_vars

\* A GetValue or Begin in a tree of three levels holds the read latches of the root
\* and of an internal page below it.
C26_Witness ==
  \E t \in Threads :
    /\ pc[t] = "rd_release"
    /\ lv[t].parent = tree.root_page_id
    /\ ~tree.pages[lv[t].tmp].is_leaf

\* The pins an iterator keeps: one on its leaf, none for the end iterator.
IteratorPins(it) == IF it = EndIterator THEN <<>> ELSE PinPage(<<>>, it.page)

\* C35: no UnpinPage is made for a pin that was not taken; when Insert (true or
\* false, with or without splits), GetValue, IsEmpty or GetRootPageId has returned,
\* the thread holds no page latch of a call and every pin the call took was given
\* back once; with no iterator alive and no call running no page is pinned.
C35_ReleasesEverything ==
  /\ [](\A t \in Threads :
          /\ \A p \in DOMAIN held[t] : held[t][p] > 0
          /\ pc[t] = "idle"
               => /\ WHeld(t) = {} /\ RDescent(t) = {}
                  /\ held[t] = IteratorPins(iter[t]))
  /\ []((\A t \in Threads : pc[t] = "idle" /\ iter[t] = EndIterator)
          => \A t \in Threads : held[t] = <<>>)
  /\ [][\A t \in Threads :
          (IN_Leaf(t) \/ IN_Up(t) \/ HD_Return(t)
             \/ (RD_Release(t) /\ lv[t].op = "GetValue")) /\ pc'[t] = "idle"
            => held'[t] = IteratorPins(iter[t]) /\ WHeld(t)' = {} /\ RDescent(t)' = {}]_vars

\* Both calls of the run have returned, one of them the Insert of 15 into a tree
\* built from n keys: it split a leaf and every page above it and made a new root;
\* no iterator is alive and no page is pinned.
C35_Witness ==
  /\ ops = 0
  /\ \A t \in Threads : pc[t] = "idle" /\ iter[t] = EndIterator /\ held[t] = <<>>
  /\ \E n \in 1..MaxPrefill, m \in TreeSizes :
       /\ tree.pages = TreeInsert(Prefilled(n, m, m), 15, 15).pages
       /\ Len(tree.pages) >= Len(Prefilled(n, m, m).pages) + 2
       /\ tree.root_page_id = Len(tree.pages)
       /\ tree.root_page_id # Prefilled(n, m, m).root_page_id

=============================================================================
